---- MODULE Spec2Model ----
(***************************************************************************)
(* driftsql: the SQLClient dispatch layer (query fallback, transaction     *)
(* gating, CRUD pass-through, close) and the per-backend drivers' CRUD     *)
(* helpers, modelled from the TypeScript sources.                          *)
(*                                                                         *)
(* Spec        the client over its primary and fallback drivers; a         *)
(*             driver call either resolves or rejects.                     *)
(* SpecDriver  the client over one driver class and the table behind it:   *)
(*             the driver builds SQL text, the backend executes it.        *)
(* SpecTxn     transaction(callback) of MySQLDriver, LibSQLDriver and      *)
(*             SqliteDriver on the native handle they hold.                *)
(* SpecMap     mapDatabaseTypeToTypeScript over type names.                *)
(* SpecInspect inspectDB: table list, column queries, db-types.ts.         *)
(* SpecHttp    the requests of the Postgres HTTP driver and client.        *)
(* SpecRetry   retryQuery loops raced by withTimeout, table after table;   *)
(*             SpecRetryFair adds that promises settle and timers fire.    *)
(***************************************************************************)
EXTENDS Integers, Sequences, FiniteSets, TLC

\* ------------------------------------------------------------------ bounds
MaxFallbacks == 2

\* ------------------------------------------------------------- driver kinds
\* The driver classes of the repository.  PostgresDriverHTTP is PostgresDriver
\* constructed with experimental.http; LibSQLDriverV1 is the earlier LibSQLDriver
\* that has transaction() but no CRUD helpers.
DriverKinds ==
  {"PostgresDriver", "PostgresDriverHTTP", "LibSQLDriver", "LibSQLDriverV1",
   "MySQLDriver", "SqliteDriver", "NeonDriver", "BunDriver", "BunDriverOther",
   "SqliteCloudDriver", "SurrealDriver"}

CrudMethods == {"findFirst", "findMany", "insert", "update", "delete"}

\* Which classes declare transaction().
TransactionKinds ==
  {"PostgresDriver", "PostgresDriverHTTP", "LibSQLDriver", "LibSQLDriverV1",
   "MySQLDriver", "SqliteDriver"}

\* Which classes declare findFirst/findMany/insert/update/delete.
CrudKinds ==
  {"PostgresDriver", "PostgresDriverHTTP", "LibSQLDriver", "MySQLDriver",
   "SqliteDriver", "NeonDriver", "BunDriver", "BunDriverOther",
   "SqliteCloudDriver"}

\* `!this.primaryDriver.findFirst` and friends: is the optional method there?
HasMethod(kind, m) == m \in CrudMethods /\ kind \in CrudKinds

\* Fault variant: the capability probe answers yes for every driver.
hasTransactionSupportAlways(kind) == TRUE

\* 'transaction' in driver && typeof driver.transaction === 'function'
hasTransactionSupport(kind) == kind \in TransactionKinds

\* SQLClient.supportsTransactions()
supportsTransactions(kind) == hasTransactionSupport(kind)

\* ------------------------------------------------------------------ errors
NoError == [name |-> "none"]

DatabaseError(message, driverType, originalError) ==
  [name |-> "DatabaseError", message |-> message, driverType |-> driverType,
   originalError |-> originalError]

\* SQL text and messages are sequences of string tokens.
QueryError(driverType, sql, originalError) ==
  [name |-> "QueryError", message |-> <<"Query failed: ">> \o sql,
   driverType |-> driverType, originalError |-> originalError]

PlainError(message) ==
  [name |-> "Error", message |-> message, driverType |-> "",
   originalError |-> NoError]

TypeError(message) ==
  [name |-> "TypeError", message |-> message, driverType |-> "",
   originalError |-> NoError]

\* ---------------------------------------------------------------- outcomes
Pending == [status |-> "pending"]
Returned(v) == [status |-> "ok", value |-> v]
Threw(e) == [status |-> "err", error |-> e]

VNull == [t |-> "null"]
VUndefined == [t |-> "undefined"]
VVoid == [t |-> "void"]
VNum(n) == [t |-> "number", n |-> n]
VRow(r) == [t |-> "row", row |-> r]
VRows(rs) == [t |-> "rows", rows |-> rs]
VResult(rows, rowCount) == [t |-> "result", rows |-> rows, rowCount |-> rowCount]

VARIABLES
  primaryDriver,    \* SQLClient.primaryDriver: the class of the primary driver
  fallbackDrivers,  \* SQLClient.fallbackDrivers: the ordered fallback drivers
  pc,               \* where the running client operation stands
  op,               \* the client operation running or last run
  idx,              \* SQLClient.query: position of the for loop in `drivers`
  lastError,        \* SQLClient.query: the local lastError
  calls,            \* driver methods called by the operation, in call order
  outcome,          \* how the operation settled: returned value or thrown error
  inTxn,            \* a transaction callback is running
  cbInvoked,        \* times the callback of the last transaction() was invoked
  closePending,     \* SQLClient.close: drivers whose close() has not settled
  closeFailed,      \* drivers whose close() rejected in the running close()
  table,            \* backend: the rows of table users behind the primary driver
  autoId,           \* backend: the table exposes an insert id (rowid, AUTO_INCREMENT)
  prevTable,        \* backend: the rows before the operation started
  sent,             \* statements the driver handed to its native client
  txPc,             \* driver.transaction: idle, callback (running) or done
  txLog,            \* driver.transaction: the steps taken, in order
  txOpen,           \* backend: a transaction is open on the connection
  snapshot,         \* backend: the rows when transaction() was called
  handleOpen,       \* the native handle (connection, database) is open
  written,          \* ids of the rows the transaction callback inserted
  yielded,          \* the callback has handed its promise back to its caller
  promiseCheck,     \* better-sqlite3 refuses a transaction function's promise
  data_type,        \* a column: its data_type, the argument dataType of the mapping
  is_nullable,      \* a column: is_nullable is YES, the argument isNullable
  tsType,           \* mapDatabaseTypeToTypeScript: the value returned
  activeDriver,     \* inspectDB: the configured driver key
  ipc,              \* inspectDB: idle, tables (the loop) or done
  tableRows,        \* inspectDB: tables.rows, the table names listed
  processedTables,  \* inspectDB: the counter processedTables
  generatedTypes,   \* inspectDB: the text generated so far, line by line
  inspected,        \* how the column query of each table so far settled
  dbTypes,          \* the file db-types.ts
  exitCode,         \* the code given to process.exit, -1 while running
  listError,        \* which query before the loop failed, if one did
  requests,         \* the HTTP requests posted, in order
  maxRetries,       \* retryQuery: the argument maxRetries
  attempt,          \* retryQuery: the loop variable attempt, per table
  retryPc,          \* retryQuery: idle, query (queryFn in flight), delay or done
  queryCalls,       \* times queryFn was called by the loop of each table
  delays,           \* the delays each loop has waited, in milliseconds
  retryResult,      \* how each retryQuery promise settled
  raceResult,       \* how each withTimeout promise settled
  inspecting,       \* inspectDB: the table whose column query is awaited
  exited            \* process.exit was called

clientVars == <<primaryDriver, fallbackDrivers, pc, op, idx, lastError, calls,
                outcome, inTxn, cbInvoked, closePending, closeFailed>>

backendVars == <<table, autoId, prevTable, sent>>

txnVars == <<txPc, txLog, txOpen, snapshot, handleOpen, written, yielded,
             promiseCheck>>

pullVars == <<data_type, is_nullable, tsType>>

inspectVars == <<activeDriver, ipc, tableRows, processedTables, generatedTypes,
                 inspected, dbTypes, exitCode, listError>>

httpVars == <<requests>>

retryVars == <<maxRetries, attempt, retryPc, queryCalls, delays, retryResult,
               raceResult, inspecting, exited>>

vars == <<clientVars, backendVars, txnVars, pullVars, inspectVars, httpVars, retryVars>>

\* ------------------------------------------------------------ the clients
FallbackIds == {"F1", "F2", "F3"}

\* Every duplicate-free list of fallback drivers of length <= MaxFallbacks.
FallbackLists ==
  {s \in UNION {[1..n -> FallbackIds] : n \in 0..MaxFallbacks} :
     \A i, j \in DOMAIN s : i # j => s[i] # s[j]}

\* "outer" is the client the application built; "txn" the transactionClient
\* SQLClient.transaction hands to the callback.
Clients == {"outer", "txn"}

ActiveClients == IF inTxn THEN Clients ELSE {"outer"}

\* this.primaryDriver of a client: "P" the primary, "T" the transactionDriver.
PrimaryOf(c) == IF c = "outer" THEN "P" ELSE "T"

\* Fault variant: the transaction client inherits the outer fallbacks.
FallbacksOfInherited(c) == fallbackDrivers

\* this.fallbackDrivers of a client (transactionClient: fallbackDrivers: []).
FallbacksOf(c) == IF c = "outer" THEN fallbackDrivers ELSE <<>>

\* const drivers = [this.primaryDriver, ...this.fallbackDrivers]
ClientDrivers(c) == <<PrimaryOf(c)>> \o FallbacksOf(c)

\* The backend tag a driver puts in its QueryError.
DriverTag(kind) ==
  CASE kind \in {"PostgresDriver", "PostgresDriverHTTP"} -> "postgres"
    [] kind \in {"LibSQLDriver", "LibSQLDriverV1"} -> "libsql"
    [] kind = "MySQLDriver" -> "mysql"
    [] kind = "SqliteDriver" -> "sqlite"
    [] kind = "NeonDriver" -> "neon"
    [] kind \in {"BunDriver", "BunDriverOther"} -> "bun"
    [] kind = "SqliteCloudDriver" -> "sqlitecloud"
    [] OTHER -> "surreal"

\* What driver d's failed query throws in Spec: a QueryError wrapping the
\* native failure of d's own connection.
NativeFailure(d) == PlainError(<<"native failure of", d>>)

QueryFailureOf(d, sql) ==
  QueryError(IF d \in {"P", "T"} THEN DriverTag(primaryDriver) ELSE d, sql,
             NativeFailure(d))


\* The one row a driver call of Spec resolves with.
RowOf(d) == [src |-> d]

\* What driver d's successful query resolves to in Spec.
QueryResultOf(d) == VResult(<<RowOf(d)>>, 1)

\* What a CRUD helper of driver d may settle with in Spec, per the
\* DatabaseDriver interface: findFirst resolves a result or null, findMany,
\* insert and update a result, delete a number; each may reject.
HelperSql(m) == <<m, "users">>

DriverHelperOutcomes(d, m) ==
  {Threw(QueryFailureOf(d, HelperSql(m)))} \cup
  CASE m = "findFirst" -> {Returned(VNull), Returned(VResult(<<RowOf(d)>>, 1))}
    [] m = "delete" -> {Returned(VNum(0)), Returned(VNum(1))}
    [] m = "insert" ->
         {Returned(VResult(<<RowOf(d)>>, 1)), Returned(VResult(<<>>, 1)),
          Threw(PlainError(<<"Insert failed: No data returned">>))}
    [] OTHER -> {Returned(VResult(<<>>, 0)), Returned(VResult(<<RowOf(d)>>, 1))}

\* ------------------------------------------------------- SQLClient.query
SqlInputs == {<<"SELECT 1">>}

\* Fault variant: the first error is kept instead of the latest.
QueryCatchKeepsFirst(last, error) == IF last = NoError THEN error ELSE last

\* catch (error) { lastError = error as Error; ... continue }
QueryCatch(last, error) == error

\* throw lastError || new DatabaseError('All drivers failed ...', 'unknown')
QueryRethrow(last) ==
  IF last # NoError THEN last
  ELSE DatabaseError(<<"All drivers failed to execute query">>, "unknown", NoError)

Call(c, d, m, r) == [client |-> c, driver |-> d, method |-> m, result |-> r]

\* query(): const drivers = [...]; let lastError
QueryStart(c, sql) ==
  /\ pc = "idle"
  /\ c \in ActiveClients
  /\ op' = [name |-> "query", client |-> c, sql |-> sql]
  /\ idx' = 1
  /\ lastError' = NoError
  /\ calls' = <<>>
  /\ outcome' = Pending
  /\ pc' = "query"
  /\ closeFailed' = {}
  /\ UNCHANGED <<backendVars, txnVars, pullVars, inspectVars, httpVars, retryVars>>
  /\ UNCHANGED <<primaryDriver, fallbackDrivers, inTxn, cbInvoked, closePending>>

\* Fault variant: a successful attempt does not leave the loop.
QueryAttemptKeepsGoing ==
  /\ pc = "query"
  /\ idx <= Len(ClientDrivers(op.client))
  /\ LET d == ClientDrivers(op.client)[idx] IN
     \E r \in {Returned(QueryResultOf(d)), Threw(QueryFailureOf(d, op.sql))} :
       /\ calls' = Append(calls, Call(op.client, d, "query", r))
       /\ idx' = idx + 1
       /\ IF r.status = "ok"
          THEN outcome' = r /\ UNCHANGED lastError
          ELSE lastError' = QueryCatch(lastError, r.error) /\ UNCHANGED outcome
  /\ UNCHANGED <<backendVars, txnVars, pullVars, inspectVars, httpVars, retryVars>>
  /\ UNCHANGED <<primaryDriver, fallbackDrivers, pc, op, inTxn, cbInvoked,
                 closePending, closeFailed>>

\* One iteration of `for (const driver of drivers)`: await driver.query;
\* return on success, remember the error and continue on failure.
QueryAttempt ==
  /\ pc = "query"
  /\ idx <= Len(ClientDrivers(op.client))
  /\ LET d == ClientDrivers(op.client)[idx] IN
     \E r \in {Returned(QueryResultOf(d)), Threw(QueryFailureOf(d, op.sql))} :
       /\ calls' = Append(calls, Call(op.client, d, "query", r))
       /\ IF r.status = "ok"
          THEN /\ outcome' = r
               /\ pc' = "idle"
               /\ idx' = 1
               /\ lastError' = NoError
          ELSE /\ lastError' = QueryCatch(lastError, r.error)
               /\ idx' = idx + 1
               /\ UNCHANGED <<pc, outcome>>
  /\ UNCHANGED <<backendVars, txnVars, pullVars, inspectVars, httpVars, retryVars>>
  /\ UNCHANGED <<primaryDriver, fallbackDrivers, op, inTxn, cbInvoked,
                 closePending, closeFailed>>

\* The loop ran out of drivers: throw lastError || new DatabaseError(...)
QueryThrow ==
  /\ pc = "query"
  /\ idx > Len(ClientDrivers(op.client))
  /\ outcome' = Threw(QueryRethrow(lastError))
  /\ pc' = "idle"
  /\ idx' = 1
  /\ lastError' = NoError
  /\ UNCHANGED <<backendVars, txnVars, pullVars, inspectVars, httpVars, retryVars>>
  /\ UNCHANGED <<primaryDriver, fallbackDrivers, op, calls, inTxn, cbInvoked,
                 closePending, closeFailed>>

\* --------------------------------------------------- SQLClient.transaction
\* this.primaryDriver.constructor.name
ConstructorName(kind) ==
  CASE kind = "PostgresDriverHTTP" -> "PostgresDriver"
    [] kind = "LibSQLDriverV1" -> "LibSQLDriver"
    [] kind = "BunDriverOther" -> "BunDriver"
    [] OTHER -> kind

NoTransactionSupport(kind) ==
  DatabaseError(<<"Primary driver does not support transactions">>,
                ConstructorName(kind), NoError)

\* Drivers whose transaction() opens the backend transaction before the
\* callback runs, which can fail: client.begin (postgres), beginTransaction
\* (mysql).
BeginKinds == {"PostgresDriver", "MySQLDriver"}

\* transaction(callback): probe the capability, then hand over to
\* primaryDriver.transaction, which builds the transaction driver and runs the
\* callback with a transactionClient.  PostgresDriver over HTTP throws first.
TransactionStart ==
  /\ pc = "idle"
  /\ ~inTxn
  /\ op' = [name |-> "transaction", client |-> "outer", sql |-> <<>>]
  /\ IF ~hasTransactionSupport(primaryDriver)
     THEN /\ outcome' = Threw(NoTransactionSupport(primaryDriver))
          /\ calls' = <<>>
          /\ cbInvoked' = 0
          /\ UNCHANGED inTxn
     ELSE IF primaryDriver = "PostgresDriverHTTP"
     THEN /\ outcome' =
               Threw(PlainError(<<"Transactions not supported with HTTP driver">>))
          /\ calls' = <<Call("outer", "P", "transaction", outcome')>>
          /\ cbInvoked' = 0
          /\ UNCHANGED inTxn
     ELSE \E beginOk \in (IF primaryDriver \in BeginKinds THEN BOOLEAN ELSE {TRUE}) :
            IF beginOk
            THEN /\ outcome' = Pending
                 /\ calls' = <<Call("outer", "P", "transaction", Pending)>>
                 /\ cbInvoked' = 1
                 /\ inTxn' = TRUE
            ELSE /\ outcome' = Threw(NativeFailure("P"))
                 /\ calls' = <<Call("outer", "P", "transaction", outcome')>>
                 /\ cbInvoked' = 0
                 /\ UNCHANGED inTxn
  /\ closeFailed' = {}
  /\ UNCHANGED <<backendVars, txnVars, pullVars, inspectVars, httpVars, retryVars>>
  /\ UNCHANGED <<primaryDriver, fallbackDrivers, pc, idx, lastError, closePending>>

\* The callback settles and primaryDriver.transaction with it: transaction()
\* returns the callback's value or rethrows what it threw.
TransactionEnd ==
  /\ pc = "idle"
  /\ inTxn
  /\ \E r \in {Returned(VNum(1)), Threw(PlainError(<<"callback failed">>))} :
       /\ outcome' = r
       /\ calls' = <<Call("outer", "P", "transaction", r)>>
  /\ op' = [name |-> "transaction", client |-> "outer", sql |-> <<>>]
  /\ inTxn' = FALSE
  /\ closeFailed' = {}
  /\ UNCHANGED <<backendVars, txnVars, pullVars, inspectVars, httpVars, retryVars>>
  /\ UNCHANGED <<primaryDriver, fallbackDrivers, pc, idx, lastError, cbInvoked,
                 closePending>>

\* ------------------------------------- SQLClient.findFirst ... delete
ClientErrorText(m) ==
  CASE m = "findFirst" -> <<"Error finding first in", "users">>
    [] m = "findMany" -> <<"Error finding many in", "users">>
    [] m = "insert" -> <<"Error inserting into", "users">>
    [] m = "update" -> <<"Error updating", "users">>
    [] OTHER -> <<"Error deleting from", "users">>

NoMethodSupport(kind, m) ==
  DatabaseError(<<"Primary driver does not support", m>>, ConstructorName(kind),
                NoError)

\* catch (error) { throw new QueryError('<method>', `Error ...`, error) }
ClientCatch(m, e) == Threw(QueryError(m, ClientErrorText(m), e))

\* rows[0] of a JavaScript array: undefined when the array is empty.
FirstRow(rows) == IF Len(rows) > 0 THEN VRow(rows[1]) ELSE VUndefined

\* x || null
OrNull(v) == IF v = VUndefined THEN VNull ELSE v

\* The try block of each pass-through method, given what the driver's method
\* resolved with.  Reading .rows of null throws a TypeError inside the try.
ClientTry(m, v) ==
  CASE m = "findFirst" ->
         IF v = VNull
         THEN ClientCatch(m, TypeError(<<"Cannot read properties of null">>))
         ELSE Returned(OrNull(FirstRow(v.rows)))
    [] m = "findMany" -> Returned(VRows(v.rows))
    [] m = "insert" -> Returned(FirstRow(v.rows))
    [] m = "update" -> Returned(OrNull(FirstRow(v.rows)))
    [] OTHER -> Returned(v)

\* What the client method settles with, given how the driver's method settled.
ClientSettle(m, r) ==
  IF r.status = "err" THEN ClientCatch(m, r.error) ELSE ClientTry(m, r.value)

\* Fault variant: a failed helper is retried on the first fallback driver.
HelperWithFallback(c, m) ==
  /\ pc = "idle"
  /\ c \in ActiveClients
  /\ IF ~HasMethod(primaryDriver, m)
     THEN /\ outcome' = Threw(NoMethodSupport(primaryDriver, m))
          /\ calls' = <<>>
          /\ op' = [name |-> m, client |-> c, sql |-> <<>>, resp |-> Pending]
     ELSE \E r \in DriverHelperOutcomes(PrimaryOf(c), m) :
            /\ op' = [name |-> m, client |-> c, sql |-> <<>>, resp |-> r]
            /\ IF r.status = "err" /\ Len(fallbackDrivers) > 0
               THEN /\ calls' = <<Call(c, PrimaryOf(c), m, r),
                                  Call(c, fallbackDrivers[1], m, r)>>
                    /\ outcome' = ClientSettle(m, r)
               ELSE /\ calls' = <<Call(c, PrimaryOf(c), m, r)>>
                    /\ outcome' = ClientSettle(m, r)
  /\ closeFailed' = {}
  /\ UNCHANGED <<backendVars, txnVars, pullVars, inspectVars, httpVars, retryVars>>
  /\ UNCHANGED <<primaryDriver, fallbackDrivers, pc, idx, lastError, inTxn,
                 cbInvoked, closePending>>

\* findFirst/findMany/insert/update/delete of client c: probe the method on
\* the primary driver, call it, shape or wrap what it settled with.
Helper(c, m) ==
  /\ pc = "idle"
  /\ c \in ActiveClients
  /\ IF ~HasMethod(primaryDriver, m)
     THEN /\ outcome' = Threw(NoMethodSupport(primaryDriver, m))
          /\ calls' = <<>>
          /\ op' = [name |-> m, client |-> c, sql |-> <<>>, resp |-> Pending]
     ELSE \E r \in DriverHelperOutcomes(PrimaryOf(c), m) :
            /\ op' = [name |-> m, client |-> c, sql |-> <<>>, resp |-> r]
            /\ calls' = <<Call(c, PrimaryOf(c), m, r)>>
            /\ outcome' = ClientSettle(m, r)
  /\ closeFailed' = {}
  /\ UNCHANGED <<backendVars, txnVars, pullVars, inspectVars, httpVars, retryVars>>
  /\ UNCHANGED <<primaryDriver, fallbackDrivers, pc, idx, lastError, inTxn,
                 cbInvoked, closePending>>

\* ------------------------------------------------------- SQLClient.close
SetOf(seq) == {seq[i] : i \in DOMAIN seq}

\* close(): drivers.map((driver) => driver.close().catch(...)) calls close on
\* every driver, in list order, before any of them settles.
CloseStart(c) ==
  /\ pc = "idle"
  /\ c \in ActiveClients
  /\ op' = [name |-> "close", client |-> c, sql |-> <<>>]
  /\ calls' = [i \in DOMAIN ClientDrivers(c) |->
                 Call(c, ClientDrivers(c)[i], "close", Pending)]
  /\ closePending' = SetOf(ClientDrivers(c))
  /\ closeFailed' = {}
  /\ outcome' = Pending
  /\ pc' = "closing"
  /\ UNCHANGED <<backendVars, txnVars, pullVars, inspectVars, httpVars, retryVars>>
  /\ UNCHANGED <<primaryDriver, fallbackDrivers, idx, lastError, inTxn,
                 cbInvoked>>

\* Fault variant: no .catch on the close promises, so the first rejection
\* rejects Promise.all and close() with it.
CloseSettleUncaught(d) ==
  /\ pc = "closing"
  /\ d \in closePending
  /\ \E ok \in BOOLEAN :
       IF ok
       THEN /\ closePending' = closePending \ {d}
            /\ UNCHANGED <<closeFailed, outcome, pc>>
       ELSE /\ closePending' = {}
            /\ closeFailed' = closeFailed \cup {d}
            /\ outcome' = Threw(NativeFailure(d))
            /\ pc' = "idle"
  /\ UNCHANGED <<backendVars, txnVars, pullVars, inspectVars, httpVars, retryVars>>
  /\ UNCHANGED <<primaryDriver, fallbackDrivers, op, idx, lastError, calls,
                 inTxn, cbInvoked>>

\* One driver's close() settles; a rejection is caught and warned about.
CloseSettle(d) ==
  /\ pc = "closing"
  /\ d \in closePending
  /\ closePending' = closePending \ {d}
  /\ \E ok \in BOOLEAN :
       closeFailed' = IF ok THEN closeFailed ELSE closeFailed \cup {d}
  /\ UNCHANGED <<backendVars, txnVars, pullVars, inspectVars, httpVars, retryVars>>
  /\ UNCHANGED <<primaryDriver, fallbackDrivers, pc, op, idx, lastError, calls,
                 outcome, inTxn, cbInvoked>>

\* await Promise.all(...) resolves once every wrapped promise has.
CloseReturn ==
  /\ pc = "closing"
  /\ closePending = {}
  /\ outcome' = Returned(VVoid)
  /\ pc' = "idle"
  /\ UNCHANGED <<backendVars, txnVars, pullVars, inspectVars, httpVars, retryVars>>
  /\ UNCHANGED <<primaryDriver, fallbackDrivers, op, idx, lastError, calls,
                 inTxn, cbInvoked, closePending, closeFailed>>

\* ------------------------------------------------------------ specification
\* new SQLClient({ driver, fallbackDrivers }): any driver class as primary,
\* any list of fallbacks; nothing has run yet.
Unmapped == <<"unmapped">>

NoFile == [written |-> FALSE, text |-> <<>>]

Running == 0 - 1

\* No HTTP request has been posted.
HttpIdle == requests = <<>>

\* retryQuery's defaults: maxRetries = 3, baseDelay = 1000.
DefaultMaxRetries == 3
DefaultBaseDelay == 1000

\* The largest maxRetries tried and the number of tables inspected.
MaxRetriesBound == 3
RetryTables == 2

RetryIdle ==
  /\ maxRetries = DefaultMaxRetries
  /\ attempt = [t \in 1..RetryTables |-> 0]
  /\ retryPc = [t \in 1..RetryTables |-> "idle"]
  /\ queryCalls = [t \in 1..RetryTables |-> 0]
  /\ delays = [t \in 1..RetryTables |-> <<>>]
  /\ retryResult = [t \in 1..RetryTables |-> Pending]
  /\ raceResult = [t \in 1..RetryTables |-> Pending]
  /\ inspecting = 0
  /\ exited = FALSE

\* inspectDB has not been called.
InspectIdle ==
  /\ activeDriver = "postgres"
  /\ ipc = "idle"
  /\ tableRows = <<>>
  /\ processedTables = 0
  /\ generatedTypes = <<>>
  /\ inspected = <<>>
  /\ dbTypes = NoFile
  /\ exitCode = Running
  /\ listError = "none"

\* mapDatabaseTypeToTypeScript has not been called.
PullIdle ==
  /\ data_type = <<>>
  /\ is_nullable = FALSE
  /\ tsType = Unmapped

\* No driver.transaction() has been called and the native handle is open.
TxnIdle ==
  /\ txPc = "idle"
  /\ txLog = <<>>
  /\ txOpen = FALSE
  /\ snapshot = {}
  /\ handleOpen = TRUE
  /\ written = {}
  /\ yielded = FALSE
  /\ promiseCheck = FALSE

Init ==
  /\ HttpIdle
  /\ RetryIdle
  /\ TxnIdle
  /\ PullIdle
  /\ InspectIdle
  /\ primaryDriver \in DriverKinds
  /\ fallbackDrivers \in FallbackLists
  /\ pc = "idle"
  /\ op = [name |-> "none", client |-> "outer", sql |-> <<>>]
  /\ idx = 1
  /\ lastError = NoError
  /\ calls = <<>>
  /\ outcome = Pending
  /\ inTxn = FALSE
  /\ cbInvoked = 0
  /\ closePending = {}
  /\ closeFailed = {}
  /\ table = {}
  /\ autoId = TRUE
  /\ prevTable = {}
  /\ sent = <<>>

Next ==
  \/ \E c \in Clients, sql \in SqlInputs : QueryStart(c, sql)
  \/ QueryAttempt
  \/ QueryThrow
  \/ TransactionStart
  \/ TransactionEnd
  \/ \E c \in Clients, m \in CrudMethods : Helper(c, m)
  \/ \E c \in Clients : CloseStart(c)
  \/ \E d \in {"P", "T"} \cup FallbackIds : CloseSettle(d)
  \/ CloseReturn

Spec == Init /\ [][Next]_vars

\* ============================================================ the backend
\* The table the end-to-end scenario creates, users(id INTEGER PRIMARY KEY,
\* name TEXT), as a set of rows with unique id.  Column values are numbers;
\* Null stands for SQL NULL.
MaxId == 2

Ids == 1..MaxId
NameVals == {1, 2}
Null == 0
TableName == "users"

SeqToSet(q) == {q[i] : i \in DOMAIN q}

\* The rows of a table in primary-key order.
RECURSIVE SortedRows(_)
SortedRows(rows) ==
  IF rows = {} THEN <<>>
  ELSE LET r == CHOOSE x \in rows : \A y \in rows : x.id <= y.id
       IN <<r>> \o SortedRows(rows \ {r})

\* ---------------------------------------------------------------- SQL text
\* SQL text is a sequence of tokens; a placeholder is "?" or "$n".
DollarTokens == <<"$1", "$2", "$3", "$4", "$5", "$6">>
Dollar(n) == DollarTokens[n]

IndexOf(s, tok) ==
  IF \E i \in DOMAIN s : s[i] = tok
  THEN CHOOSE i \in DOMAIN s : s[i] = tok /\ \A j \in 1..(i - 1) : s[j] # tok
  ELSE 0

QMarksUpTo(s, i) == Cardinality({j \in 1..i : s[j] = "?"})

\* The position in the parameter list the placeholder at s[i] binds, 0 when
\* s[i] is no placeholder.
ParamIndex(s, i) ==
  IF s[i] = "?" THEN QMarksUpTo(s, i)
  ELSE IF \E n \in DOMAIN DollarTokens : DollarTokens[n] = s[i]
  THEN CHOOSE n \in DOMAIN DollarTokens : DollarTokens[n] = s[i]
  ELSE 0

\* Every placeholder of the text binds a parameter that was passed.
Bound(s, params) ==
  \A i \in DOMAIN s : ParamIndex(s, i) <= Len(params)

\* The value at s[i]: a bound parameter, or the literal 1 of "LIMIT 1".
ValueAt(s, i, params) ==
  IF ParamIndex(s, i) > 0 THEN params[ParamIndex(s, i)] ELSE 1

\* col = ph [sep col = ph]... starting at s[i].
RECURSIVE Assignments(_, _, _, _)
Assignments(s, i, sep, params) ==
  IF i + 2 > Len(s) \/ s[i + 1] # "=" THEN <<>>
  ELSE <<[col |-> s[i], val |-> ValueAt(s, i + 2, params)]>> \o
       (IF i + 3 <= Len(s) /\ s[i + 3] = sep
        THEN Assignments(s, i + 4, sep, params) ELSE <<>>)

\* tok [, tok]... starting at s[i].
RECURSIVE TokenList(_, _)
TokenList(s, i) ==
  IF i > Len(s) THEN <<>>
  ELSE <<s[i]>> \o
       (IF i + 1 <= Len(s) /\ s[i + 1] = "," THEN TokenList(s, i + 2) ELSE <<>>)

WhereOf(s, params) ==
  IF IndexOf(s, "WHERE") = 0 THEN <<>>
  ELSE Assignments(s, IndexOf(s, "WHERE") + 1, "AND", params)

\* rowid names the INTEGER PRIMARY KEY column of a rowid table.
KnownColumn(col, auto) == col \in {"id", "name"} \/ (col = "rowid" /\ auto)

ColumnValue(row, col) == IF col = "name" THEN row.name ELSE row.id

\* col = value is never true of NULL.
Matches(row, conds) ==
  \A k \in DOMAIN conds :
    /\ conds[k].val # Null
    /\ ColumnValue(row, conds[k].col) = conds[k].val

Returning(s) == Len(s) > 0 /\ s[Len(s)] = "RETURNING *"

\* ------------------------------------------------------------- execution
\* What the backend answers: the rows the statement returns, the number of
\* rows it changed, the insert id it exposes, and the table afterwards.
BackendOk(rows, affected, insertId, tbl) ==
  [ok |-> TRUE, rows |-> rows, affected |-> affected, insertId |-> insertId,
   verb |-> "", table |-> tbl]

BackendError(tbl) ==
  [ok |-> FALSE, rows |-> <<>>, affected |-> 0, insertId |-> 0, verb |-> "",
   table |-> tbl]

\* SQLite and MySQL accept OFFSET only after LIMIT; PostgreSQL accepts it alone.
OffsetNeedsLimit(dialect) == dialect # "postgres"

ExecSelect(s, params, tbl, auto, dialect) ==
  LET conds == WhereOf(s, params)
      hit == SortedRows({r \in tbl : Matches(r, conds)})
      l == IndexOf(s, "LIMIT")
      o == IndexOf(s, "OFFSET")
      skip == IF o = 0 THEN 0 ELSE ValueAt(s, o + 1, params)
      rest == SubSeq(hit, skip + 1, Len(hit))
      take == IF l = 0 THEN Len(rest) ELSE ValueAt(s, l + 1, params)
  IN IF \/ (IndexOf(s, "WHERE") > 0 /\ conds = <<>>)
        \/ \E k \in DOMAIN conds : ~KnownColumn(conds[k].col, auto)
        \/ (o > 0 /\ l = 0 /\ OffsetNeedsLimit(dialect))
     THEN BackendError(tbl)
     ELSE BackendOk(SubSeq(rest, 1, IF take < Len(rest) THEN take ELSE Len(rest)),
                    0, 0, tbl)

ExecInsert(s, params, tbl, auto, dialect) ==
  LET cols == TokenList(s, 4)
      v == IndexOf(s, "VALUES")
      phs == TokenList(s, v + 2)
      given(c) == IF \E k \in DOMAIN cols : cols[k] = c
                  THEN ValueAt(s, v + 2 * (CHOOSE k \in DOMAIN cols : cols[k] = c), params)
                  ELSE Null
      top == IF tbl = {} THEN 0 ELSE (CHOOSE r \in tbl : \A y \in tbl : r.id >= y.id).id
      id == IF given("id") # Null THEN given("id") ELSE IF auto THEN top + 1 ELSE Null
      row == [id |-> id, name |-> given("name")]
  IN IF \/ v = 0
        \/ Len(cols) # Len(phs)
        \/ \E k \in DOMAIN cols : cols[k] \notin {"id", "name"}
        \/ id = Null
        \/ \E r \in tbl : r.id = id
        \/ (Returning(s) /\ dialect = "mysql")
     THEN BackendError(tbl)
     ELSE BackendOk(IF Returning(s) THEN <<row>> ELSE <<>>, 1,
                    IF auto THEN id ELSE 0, tbl \cup {row})

ExecUpdate(s, params, tbl, auto, dialect) ==
  LET sets == Assignments(s, 4, ",", params)
      conds == WhereOf(s, params)
      set(r, c) == IF \E k \in DOMAIN sets : sets[k].col = c
                   THEN sets[CHOOSE k \in DOMAIN sets : sets[k].col = c].val
                   ELSE ColumnValue(r, c)
      new(r) == [id |-> set(r, "id"), name |-> set(r, "name")]
      hit == {r \in tbl : Matches(r, conds)}
      kept == tbl \ hit
      moved == {new(r) : r \in hit}
  IN IF \/ sets = <<>> \/ conds = <<>>
        \/ \E k \in DOMAIN sets : sets[k].col \notin {"id", "name"}
        \/ \E k \in DOMAIN conds : ~KnownColumn(conds[k].col, auto)
        \/ Cardinality(moved) # Cardinality(hit)
        \/ \E a \in moved, b \in kept : a.id = b.id
        \/ (Returning(s) /\ dialect = "mysql")
     THEN BackendError(tbl)
     ELSE BackendOk(IF Returning(s) THEN SortedRows(moved) ELSE <<>>,
                    Cardinality(hit), 0, kept \cup moved)

ExecDelete(s, params, tbl, auto, dialect) ==
  LET conds == WhereOf(s, params)
      hit == {r \in tbl : Matches(r, conds)}
  IN IF \/ conds = <<>>
        \/ \E k \in DOMAIN conds : ~KnownColumn(conds[k].col, auto)
     THEN BackendError(tbl)
     ELSE BackendOk(<<>>, Cardinality(hit), 0, tbl \ hit)

\* The backend executes one statement against the table; `fail` is a failure
\* of the connection, which leaves the table as it was.
Execute(s, params, tbl, auto, dialect, fail) ==
  LET verb == IF Len(s) > 0 THEN s[1] ELSE ""
      r == IF fail \/ Len(s) < 2 \/ s[2] # TableName \/ ~Bound(s, params)
           THEN BackendError(tbl)
           ELSE CASE verb = "SELECT * FROM" -> ExecSelect(s, params, tbl, auto, dialect)
                  [] verb = "INSERT INTO" -> ExecInsert(s, params, tbl, auto, dialect)
                  [] verb = "UPDATE" -> ExecUpdate(s, params, tbl, auto, dialect)
                  [] verb = "DELETE FROM" -> ExecDelete(s, params, tbl, auto, dialect)
                  [] OTHER -> BackendError(tbl)
  IN [r EXCEPT !.verb = verb]

\* ============================================================ the drivers
\* Drivers whose helpers number their placeholders $1, $2, ... and ask for
\* the row with RETURNING *; the other drivers write ?.
PgFamily == {"PostgresDriver", "PostgresDriverHTTP", "NeonDriver", "BunDriver"}

Dialect(kind) ==
  CASE kind \in PgFamily -> "postgres"
    [] kind = "MySQLDriver" -> "mysql"
    [] OTHER -> "sqlite"

Placeholder(kind, n) == IF kind \in PgFamily THEN Dollar(n) ELSE "?"

\* Object.entries(where): the keys with their values, in insertion order.
Entry(k, v) == [k |-> k, v |-> v]
Keys(entries) == [i \in DOMAIN entries |-> entries[i].k]
Values(entries) == [i \in DOMAIN entries |-> entries[i].v]

\* parts.join(sep)
RECURSIVE Join(_, _)
Join(parts, sep) ==
  IF Len(parts) = 0 THEN <<>>
  ELSE IF Len(parts) = 1 THEN parts[1]
  ELSE parts[1] \o <<sep>> \o Join(Tail(parts), sep)

\* entries.map(([key], index) => `${key} = <placeholder base+index+1>`).join(sep)
\* Fault variant: the values are written into the text.
Literal(v) == IF v = 1 THEN "1" ELSE IF v = 2 THEN "2" ELSE "NULL"

EqualsClauseInline(kind, entries, base, sep) ==
  Join([i \in DOMAIN entries |-> <<entries[i].k, "=", Literal(entries[i].v)>>], sep)

EqualsClause(kind, entries, base, sep) ==
  Join([i \in DOMAIN entries |-> <<entries[i].k, "=", Placeholder(kind, base + i)>>],
       sep)

Stmt(sql, params) == [sql |-> sql, params |-> params]

\* How a driver method settled: the statements it handed to the native
\* client, the table afterwards, and what it returned or threw.
Settled(sentStmts, tbl, result) ==
  [sent |-> sentStmts, table |-> tbl, result |-> result]

\* The same settlement with another result.
Resettle(q, result) == Settled(q.sent, q.table, result)

\* A settlement that follows an earlier statement of the same call.
After(first, q, result) == Settled(<<first>> \o q.sent, q.table, result)

Failed(q) == q.result.status = "err"
Rows(q) == q.result.value.rows

\* ---------------------------------------------------------- driver.query
\* rowCount as each driver's query() computes it from what its native client
\* hands back.
RowCountOf(kind, b) ==
  CASE kind = "PostgresDriverHTTP" ->
         IF b.verb = "SELECT * FROM" THEN Len(b.rows) ELSE b.affected
    [] kind = "LibSQLDriver" -> IF b.affected # 0 THEN b.affected ELSE Len(b.rows)
    [] OTHER -> Len(b.rows)

\* The error each driver's query() throws when its native client rejects.
QueryErrorOf(kind, sql) ==
  CASE kind = "PostgresDriverHTTP" ->
         QueryError("postgres", sql, QueryError("postgres-http", sql, NativeFailure("P")))
    [] kind = "NeonDriver" ->
         QueryError("neon", <<"Failed to query database: ", "Error: ">>
                               \o NativeFailure("P").message, NoError)
    [] OTHER -> QueryError(DriverTag(kind), sql, NativeFailure("P"))

\* query(sql, params): run the statement on the native client, normalise the
\* answer, wrap a rejection in a QueryError.
DriverQuery(kind, sql, params, tbl, auto, fail) ==
  LET answer(b) ==
        Settled(<<Stmt(sql, params)>>, b.table,
                IF b.ok THEN Returned(VResult(b.rows, RowCountOf(kind, b)))
                ELSE Threw(QueryErrorOf(kind, sql)))
  IN answer(Execute(sql, params, tbl, auto, Dialect(kind), fail))

\* ------------------------------------------------------------- findFirst
FindFirstSql(kind, where) ==
  <<"SELECT * FROM", TableName>> \o
  (IF Len(where) > 0 THEN <<"WHERE">> \o EqualsClause(kind, where, 0, "AND") ELSE <<>>)
  \o <<"LIMIT", "1">>

\* findFirst(table, where): SELECT ... LIMIT 1 through query(); the result
\* when it has a row, null otherwise.
DriverFindFirst(kind, where, tbl, auto, fails) ==
  LET answer(q) ==
        IF ~Failed(q) /\ Len(Rows(q)) = 0 THEN Resettle(q, Returned(VNull)) ELSE q
  IN answer(DriverQuery(kind, FindFirstSql(kind, where), Values(where), tbl, auto,
                        1 \in fails))

\* -------------------------------------------------------------- findMany
\* typeof x === 'number' && x > 0, with 0 standing for an option left out.
Positive(x) == x > 0

FindManySql(kind, where, limit, offset) ==
  <<"SELECT * FROM", TableName>> \o
  (IF Len(where) > 0 THEN <<"WHERE">> \o EqualsClause(kind, where, 0, "AND") ELSE <<>>)
  \o (IF Positive(limit) THEN <<"LIMIT", Placeholder(kind, Len(where) + 1)>> ELSE <<>>)
  \o (IF Positive(offset)
      THEN <<"OFFSET",
             Placeholder(kind, Len(where) + (IF Positive(limit) THEN 1 ELSE 0) + 1)>>
      ELSE <<>>)

\* Fault variant: the offset value is pushed before the limit value.
FindManyParamsOffsetFirst(where, limit, offset) ==
  Values(where) \o (IF Positive(offset) THEN <<offset>> ELSE <<>>)
                \o (IF Positive(limit) THEN <<limit>> ELSE <<>>)

FindManyParams(where, limit, offset) ==
  Values(where) \o (IF Positive(limit) THEN <<limit>> ELSE <<>>)
                \o (IF Positive(offset) THEN <<offset>> ELSE <<>>)

\* findMany(table, {where, limit, offset})
DriverFindMany(kind, where, limit, offset, tbl, auto, fails) ==
  DriverQuery(kind, FindManySql(kind, where, limit, offset),
              FindManyParams(where, limit, offset), tbl, auto, 1 \in fails)

\* ---------------------------------------------------------------- insert
InsertSql(kind, data) ==
  <<"INSERT INTO", TableName, "(">> \o Join([i \in DOMAIN data |-> <<data[i].k>>], ",")
  \o <<")", "VALUES", "(">>
  \o Join([i \in DOMAIN data |-> <<Placeholder(kind, i)>>], ",") \o <<")">>

NoDataProvided(what) == PlainError(<<"No data provided for", what>>)
NoConditionsProvided(what) == PlainError(<<"No conditions provided for", what>>)
NoDataReturned == PlainError(<<"Insert failed: No data returned">>)

\* PostgresDriver, NeonDriver, BunDriver, PostgresHTTPDriver: INSERT ...
\* RETURNING * through query(); no row back is an error.
PgInsert(kind, data, tbl, auto, fails) ==
  LET answer(q) ==
        IF ~Failed(q) /\ Len(Rows(q)) = 0 THEN Resettle(q, Threw(NoDataReturned))
        ELSE q
  IN answer(DriverQuery(kind, InsertSql(kind, data) \o <<"RETURNING *">>,
                        Values(data), tbl, auto, 1 \in fails))

\* The SELECT that fetches the inserted row by its insert id.
SelectBySql(col) == <<"SELECT * FROM", TableName, "WHERE", col, "=", "?">>

\* LibSQLDriver, MySQLDriver: INSERT on the native client; with an insert id,
\* SELECT the row by it, and on a failed SELECT return no rows; without an
\* insert id return no rows.
RowidInsert(kind, data, tbl, auto, fails) ==
  LET first == Stmt(InsertSql(kind, data), Values(data))
      col == IF kind = "MySQLDriver" THEN "id" ELSE "rowid"
      fetched(b, q) ==
        After(first, q,
              Returned(VResult(IF Failed(q) THEN <<>> ELSE Rows(q), b.affected)))
      answer(b) ==
        IF ~b.ok
        THEN Settled(<<first>>, b.table,
                     Threw(QueryError(DriverTag(kind), first.sql, NativeFailure("P"))))
        ELSE IF b.insertId # 0
        THEN fetched(b, DriverQuery(kind, SelectBySql(col), <<b.insertId>>, b.table,
                                    auto, 2 \in fails))
        ELSE Settled(<<first>>, b.table, Returned(VResult(<<>>, b.affected)))
  IN answer(Execute(first.sql, first.params, tbl, auto, Dialect(kind), 1 \in fails))

\* SqliteDriver: as above, but a failed SELECT reaches the outer catch.
SqliteInsert(kind, data, tbl, auto, fails) ==
  LET first == Stmt(InsertSql(kind, data), Values(data))
      fetched(b, q) ==
        After(first, q,
              IF Failed(q) THEN Threw(QueryError("sqlite", first.sql, q.result.error))
              ELSE Returned(VResult(Rows(q), b.affected)))
      answer(b) ==
        IF ~b.ok
        THEN Settled(<<first>>, b.table,
                     Threw(QueryError("sqlite", first.sql, NativeFailure("P"))))
        ELSE IF b.insertId # 0
        THEN fetched(b, DriverQuery(kind, SelectBySql("rowid"), <<b.insertId>>,
                                    b.table, auto, 2 \in fails))
        ELSE Settled(<<first>>, b.table, Returned(VResult(<<>>, b.affected)))
  IN answer(Execute(first.sql, first.params, tbl, auto, Dialect(kind), 1 \in fails))

\* SqliteCloudDriver: INSERT through query(); when that yields no rows, the
\* INSERT again with RETURNING *.
SqliteCloudInsert(kind, data, tbl, auto, fails) ==
  LET sql == InsertSql(kind, data)
      again(q1, q2) ==
        After(q1.sent[1], q2,
              IF Failed(q2) THEN Threw(QueryError("sqlitecloud", sql, q2.result.error))
              ELSE q2.result)
      answer(q1) ==
        IF Failed(q1)
        THEN Resettle(q1, Threw(QueryError("sqlitecloud", sql, q1.result.error)))
        ELSE IF Len(Rows(q1)) = 0
        THEN again(q1, DriverQuery(kind, sql \o <<"RETURNING *">>, Values(data),
                                   q1.table, auto, 2 \in fails))
        ELSE q1
  IN answer(DriverQuery(kind, sql, Values(data), tbl, auto, 1 \in fails))

\* insert(table, data) of the driver class `kind`.
DriverInsert(kind, data, tbl, auto, fails) ==
  IF Len(data) = 0 THEN Settled(<<>>, tbl, Threw(NoDataProvided("insert")))
  ELSE CASE kind \in PgFamily -> PgInsert(kind, data, tbl, auto, fails)
         [] kind \in {"LibSQLDriver", "MySQLDriver"} ->
              RowidInsert(kind, data, tbl, auto, fails)
         [] kind = "SqliteDriver" -> SqliteInsert(kind, data, tbl, auto, fails)
         [] OTHER -> SqliteCloudInsert(kind, data, tbl, auto, fails)

\* ---------------------------------------------------------------- update
UpdateSql(kind, data, where) ==
  <<"UPDATE", TableName, "SET">> \o EqualsClause(kind, data, 0, ",")
  \o <<"WHERE">> \o EqualsClause(kind, where, Len(data), "AND")

UpdateSelectSql(kind, where) ==
  <<"SELECT * FROM", TableName, "WHERE">> \o EqualsClause(kind, where, 0, "AND")

\* PostgresDriver, NeonDriver, BunDriver, PostgresHTTPDriver: UPDATE ...
\* RETURNING * through query().
PgUpdate(kind, data, where, tbl, auto, fails) ==
  DriverQuery(kind, UpdateSql(kind, data, where) \o <<"RETURNING *">>,
              Values(data) \o Values(where), tbl, auto, 1 \in fails)

\* LibSQLDriver, MySQLDriver, SqliteDriver: UPDATE on the native client, then
\* SELECT with the same where through query().
NativeUpdate(kind, data, where, tbl, auto, fails) ==
  LET first == Stmt(UpdateSql(kind, data, where), Values(data) \o Values(where))
      fetched(b, q) ==
        After(first, q,
              IF Failed(q)
              THEN Threw(QueryError(DriverTag(kind), first.sql, q.result.error))
              ELSE Returned(VResult(Rows(q), b.affected)))
      answer(b) ==
        IF ~b.ok
        THEN Settled(<<first>>, b.table,
                     Threw(QueryError(DriverTag(kind), first.sql, NativeFailure("P"))))
        ELSE fetched(b, DriverQuery(kind, UpdateSelectSql(kind, where), Values(where),
                                    b.table, auto, 2 \in fails))
  IN answer(Execute(first.sql, first.params, tbl, auto, Dialect(kind), 1 \in fails))

\* SqliteCloudDriver: UPDATE ... RETURNING * through query(), errors wrapped.
SqliteCloudUpdate(kind, data, where, tbl, auto, fails) ==
  LET sql == UpdateSql(kind, data, where) \o <<"RETURNING *">>
      answer(q) ==
        IF Failed(q)
        THEN Resettle(q, Threw(QueryError("sqlitecloud", sql, q.result.error)))
        ELSE q
  IN answer(DriverQuery(kind, sql, Values(data) \o Values(where), tbl, auto,
                        1 \in fails))

\* Fault variant: update() builds and sends its statement whatever the input.
DriverUpdateUnguarded(kind, data, where, tbl, auto, fails) ==
  CASE kind \in PgFamily -> PgUpdate(kind, data, where, tbl, auto, fails)
    [] kind = "SqliteCloudDriver" -> SqliteCloudUpdate(kind, data, where, tbl, auto, fails)
    [] OTHER -> NativeUpdate(kind, data, where, tbl, auto, fails)

\* update(table, data, where) of the driver class `kind`.
DriverUpdate(kind, data, where, tbl, auto, fails) ==
  IF Len(data) = 0 THEN Settled(<<>>, tbl, Threw(NoDataProvided("update")))
  ELSE IF Len(where) = 0 THEN Settled(<<>>, tbl, Threw(NoConditionsProvided("update")))
  ELSE CASE kind \in PgFamily -> PgUpdate(kind, data, where, tbl, auto, fails)
         [] kind = "SqliteCloudDriver" ->
              SqliteCloudUpdate(kind, data, where, tbl, auto, fails)
         [] OTHER -> NativeUpdate(kind, data, where, tbl, auto, fails)

\* ---------------------------------------------------------------- delete
DeleteSql(kind, where) ==
  <<"DELETE FROM", TableName, "WHERE">> \o EqualsClause(kind, where, 0, "AND")

\* PostgresDriver, NeonDriver, BunDriver, PostgresHTTPDriver: DELETE through
\* query(), answer its rowCount.
PgDelete(kind, where, tbl, auto, fails) ==
  LET answer(q) ==
        IF Failed(q) THEN q
        ELSE Resettle(q, Returned(VNum(q.result.value.rowCount)))
  IN answer(DriverQuery(kind, DeleteSql(kind, where), Values(where), tbl, auto,
                        1 \in fails))

\* LibSQLDriver, MySQLDriver, SqliteDriver: DELETE on the native client,
\* answer the number of rows it reports as changed.
\* Fault variant: the length of the (empty) rows list instead of the affected
\* count.
NativeDeleteCountsRows(kind, where, tbl, auto, fails) ==
  LET first == Stmt(DeleteSql(kind, where), Values(where))
      answer(b) ==
        Settled(<<first>>, b.table,
                IF b.ok THEN Returned(VNum(Len(b.rows)))
                ELSE Threw(QueryError(DriverTag(kind), first.sql, NativeFailure("P"))))
  IN answer(Execute(first.sql, first.params, tbl, auto, Dialect(kind), 1 \in fails))

NativeDelete(kind, where, tbl, auto, fails) ==
  LET first == Stmt(DeleteSql(kind, where), Values(where))
      answer(b) ==
        Settled(<<first>>, b.table,
                IF b.ok THEN Returned(VNum(b.affected))
                ELSE Threw(QueryError(DriverTag(kind), first.sql, NativeFailure("P"))))
  IN answer(Execute(first.sql, first.params, tbl, auto, Dialect(kind), 1 \in fails))

\* SqliteCloudDriver: DELETE through query(), answer its rowCount, errors
\* wrapped.
SqliteCloudDelete(kind, where, tbl, auto, fails) ==
  LET sql == DeleteSql(kind, where)
      answer(q) ==
        IF Failed(q)
        THEN Resettle(q, Threw(QueryError("sqlitecloud", sql, q.result.error)))
        ELSE Resettle(q, Returned(VNum(q.result.value.rowCount)))
  IN answer(DriverQuery(kind, sql, Values(where), tbl, auto, 1 \in fails))

\* delete(table, where) of the driver class `kind`.
DriverDelete(kind, where, tbl, auto, fails) ==
  IF Len(where) = 0 THEN Settled(<<>>, tbl, Threw(NoConditionsProvided("delete")))
  ELSE CASE kind \in PgFamily -> PgDelete(kind, where, tbl, auto, fails)
         [] kind = "SqliteCloudDriver" -> SqliteCloudDelete(kind, where, tbl, auto, fails)
         [] OTHER -> NativeDelete(kind, where, tbl, auto, fails)

\* ------------------------------------------- the client over a real driver
\* BunDriver's helpers refuse every adapter but postgres before anything else.
PostgresOnly == PlainError(<<"Helper functions are only supported for PostgreSQL adapter">>)

\* The arguments the helpers are called with: where and data objects as
\* their entries in insertion order; limit and offset with 0 for "left out".
WhereInputs ==
  {<<>>, <<Entry("id", 1)>>, <<Entry("name", 1)>>,
   <<Entry("name", 1), Entry("id", 1)>>}

InsertInputs ==
  {<<>>, <<Entry("name", 1)>>, <<Entry("id", 1), Entry("name", 1)>>,
   <<Entry("id", 2), Entry("name", 2)>>}

UpdateInputs == {<<>>, <<Entry("name", 2)>>, <<Entry("id", 2)>>}

UpdateWhereInputs == {<<>>, <<Entry("id", 1)>>, <<Entry("name", 1)>>}

FindManyInputs ==
  {[where |-> w, limit |-> l, offset |-> o] :
     w \in {<<>>, <<Entry("name", 1)>>, <<Entry("id", 1)>>}, l \in {0, 1},
     o \in {0, 2}}

\* Which statements of a call the backend connection fails: none, the first,
\* or the second where the helper can send two.
FailInputs == {{}, {1}}
FailInputsOfTwo == {{}, {1}, {2}}

Args(data, where, limit, offset, fails) ==
  [data |-> data, where |-> where, limit |-> limit, offset |-> offset,
   fails |-> fails]

\* The helper m of SQLClient around the call of the driver's method, which
\* settled as r: probe the method, await it, settle.  The backend's key
\* space is finite: ids stay within Ids.
ClientHelper(m, a, r) ==
  /\ pc = "idle"
  /\ IF ~HasMethod(primaryDriver, m)
     THEN /\ outcome' = Threw(NoMethodSupport(primaryDriver, m))
          /\ calls' = <<>>
          /\ op' = [name |-> m, client |-> "outer", sql |-> <<>>, resp |-> Pending,
                    args |-> a]
          /\ sent' = <<>>
          /\ table' = table
     ELSE /\ \A row \in r.table : row.id \in Ids
          /\ op' = [name |-> m, client |-> "outer", sql |-> <<>>, resp |-> r.result,
                    args |-> a]
          /\ calls' = <<Call("outer", "P", m, r.result)>>
          /\ outcome' = ClientSettle(m, r.result)
          /\ sent' = r.sent
          /\ table' = r.table
  /\ prevTable' = table
  /\ closeFailed' = {}
  /\ UNCHANGED <<primaryDriver, fallbackDrivers, pc, idx, lastError, inTxn,
                 cbInvoked, closePending, autoId, txnVars, pullVars, inspectVars, httpVars, retryVars>>

\* What the driver method settles with, the adapter check of BunDriver first.
Guarded(kind, r) ==
  IF kind = "BunDriverOther" THEN Settled(<<>>, table, Threw(PostgresOnly)) ELSE r

FindFirst ==
  \E w \in WhereInputs, f \in FailInputs :
    \E r \in {Guarded(primaryDriver,
                      DriverFindFirst(primaryDriver, w, table, autoId, f))} :
      ClientHelper("findFirst", Args(<<>>, w, 0, 0, f), r)

FindMany ==
  \E i \in FindManyInputs, f \in FailInputs :
    \E r \in {Guarded(primaryDriver,
                      DriverFindMany(primaryDriver, i.where, i.limit, i.offset,
                                     table, autoId, f))} :
      ClientHelper("findMany", Args(<<>>, i.where, i.limit, i.offset, f), r)

Insert ==
  \E d \in InsertInputs, f \in FailInputsOfTwo :
    \E r \in {Guarded(primaryDriver,
                      DriverInsert(primaryDriver, d, table, autoId, f))} :
      ClientHelper("insert", Args(d, <<>>, 0, 0, f), r)

Update ==
  \E d \in UpdateInputs, w \in UpdateWhereInputs, f \in FailInputsOfTwo :
    \E r \in {Guarded(primaryDriver,
                      DriverUpdate(primaryDriver, d, w, table, autoId, f))} :
      ClientHelper("update", Args(d, w, 0, 0, f), r)

Delete ==
  \E w \in WhereInputs, f \in FailInputs :
    \E r \in {Guarded(primaryDriver,
                      DriverDelete(primaryDriver, w, table, autoId, f))} :
      ClientHelper("delete", Args(<<>>, w, 0, 0, f), r)

\* A client constructed with one driver over a database whose users table
\* either generates ids (rowid / AUTO_INCREMENT) or does not.
InitDriver ==
  /\ HttpIdle
  /\ RetryIdle
  /\ TxnIdle
  /\ PullIdle
  /\ InspectIdle
  /\ primaryDriver \in DriverKinds
  /\ fallbackDrivers = <<>>
  /\ pc = "idle"
  /\ op = [name |-> "none", client |-> "outer", sql |-> <<>>]
  /\ idx = 1
  /\ lastError = NoError
  /\ calls = <<>>
  /\ outcome = Pending
  /\ inTxn = FALSE
  /\ cbInvoked = 0
  /\ closePending = {}
  /\ closeFailed = {}
  /\ table = {}
  /\ autoId \in BOOLEAN
  /\ prevTable = {}
  /\ sent = <<>>

NextDriver ==
  \/ FindFirst
  \/ FindMany
  \/ Insert
  \/ Update
  \/ Delete

SpecDriver == InitDriver /\ [][NextDriver]_vars

\* ======================================================= driver.transaction
\* The specification SpecTxn runs transaction(callback) of one driver class on
\* its native handle: the callback inserts rows through the transaction-scoped
\* driver, may close that driver, and returns or throws.
TxnKinds == {"MySQLDriver", "LibSQLDriver", "SqliteDriver"}

Step(name, ok) == [step |-> name, ok |-> ok]

BeginError == PlainError(<<"begin failed">>)

CallbackError == PlainError(<<"callback failed">>)

CommitError == PlainError(<<"commit failed">>)

RollbackError == PlainError(<<"rollback failed">>)

PromiseError == TypeError(<<"Transaction function cannot return a promise">>)

\* What a call on the native handle can do: anything while the handle is open,
\* only fail once it is closed.
HandleAnswers == IF handleOpen THEN BOOLEAN ELSE {FALSE}

\* A catch block that rethrows without rolling back.
MySQLCatchNoRollback(error, rollbackOk) ==
  [events |-> <<>>, outcome |-> Threw(error), restored |-> FALSE]

\* MySQLDriver.transaction, the catch block: rollback, then rethrow the error
\* caught; a rollback that rejects replaces it.
MySQLCatch(error, rollbackOk) ==
  [events |-> <<Step("rollback", rollbackOk)>>,
   outcome |-> Threw(IF rollbackOk THEN error ELSE RollbackError),
   restored |-> rollbackOk]

\* MySQLDriver.transaction once the callback has settled: commit after a
\* return, the catch block after a throw or a rejected commit.
MySQLSettle(threw, commitOk, rollbackOk) ==
  IF threw
  THEN MySQLCatch(CallbackError, rollbackOk)
  ELSE IF commitOk
       THEN [events |-> <<Step("commit", TRUE)>>, outcome |-> Returned(VVoid),
             restored |-> FALSE]
       ELSE LET c == MySQLCatch(CommitError, rollbackOk)
            IN [c EXCEPT !.events = <<Step("commit", FALSE)>> \o c.events]

\* The variables driver.transaction leaves alone.
txnFrame == <<primaryDriver, fallbackDrivers, pc, op, idx, lastError, calls,
              inTxn, cbInvoked, closePending, closeFailed, autoId, prevTable,
              promiseCheck, pullVars, inspectVars, httpVars, retryVars>>

\* transaction(callback) up to the invocation of the callback.
\*   MySQLDriver: beginTransaction() inside the try, then the callback;
\*   LibSQLDriver: the callback at once, no statement is sent;
\*   SqliteDriver: the function made by client.transaction() runs BEGIN, then
\*                 the callback.
DriverTransaction ==
  /\ txPc \in {"idle", "done"}
  /\ written' = {}
  /\ yielded' = FALSE
  /\ snapshot' = table
  /\ UNCHANGED <<table, sent, handleOpen, txnFrame>>
  /\ CASE primaryDriver = "MySQLDriver" ->
            \E beginOk \in HandleAnswers, rollbackOk \in HandleAnswers :
              IF beginOk
              THEN /\ txLog' = <<Step("begin", TRUE), Step("callback", TRUE)>>
                   /\ txOpen' = TRUE
                   /\ txPc' = "callback"
                   /\ outcome' = Pending
              ELSE \E c \in {MySQLCatch(BeginError, rollbackOk)} :
                     /\ txLog' = <<Step("begin", FALSE)>> \o c.events
                     /\ txOpen' = FALSE
                     /\ txPc' = "done"
                     /\ outcome' = c.outcome
       [] primaryDriver = "LibSQLDriver" ->
            /\ txLog' = <<Step("callback", TRUE)>>
            /\ txOpen' = FALSE
            /\ txPc' = "callback"
            /\ outcome' = Pending
       [] OTHER ->
            IF handleOpen
            THEN /\ txLog' = <<Step("begin", TRUE), Step("callback", TRUE)>>
                 /\ txOpen' = TRUE
                 /\ txPc' = "callback"
                 /\ outcome' = Pending
            ELSE /\ txLog' = <<Step("begin", FALSE)>>
                 /\ txOpen' = FALSE
                 /\ txPc' = "done"
                 /\ outcome' = Threw(BeginError)

CallbackInserts == {<<Entry("name", 1)>>, <<Entry("name", 2)>>}

\* The callback awaits transactionDriver.insert(): the statement runs on the
\* handle the owning driver holds.
CallbackInsert ==
  /\ txPc = "callback"
  /\ \E d \in CallbackInserts :
       \E r \in {DriverInsert(primaryDriver, d, table, autoId,
                              IF handleOpen THEN {} ELSE {1, 2})} :
         /\ \A row \in r.table : row.id \in Ids
         /\ table' = r.table
         /\ sent' = r.sent
         /\ written' = written \cup {row.id : row \in r.table \ table}
  /\ UNCHANGED <<txPc, txLog, txOpen, snapshot, handleOpen, yielded, outcome,
                 txnFrame>>

\* The nested transaction() calls one callback makes, at most.
MaxNested == 1
Nested(log) == Cardinality({i \in DOMAIN log : log[i].step = "nestedBegin"})

\* The callback calls transaction(inner) on the transaction-scoped driver, a
\* MySQLDriver over the same connection, and awaits it; inner sends nothing of
\* its own and returns or throws.  beginTransaction sends START TRANSACTION,
\* which makes the server commit the transaction that is open and start a new
\* one; commit or rollback then ends that one, and the outer callback runs on
\* with no transaction open.  When the inner beginTransaction fails, the inner
\* catch block rolls back on the shared connection.
CallbackTransaction(threw) ==
  /\ primaryDriver = "MySQLDriver"
  /\ txPc = "callback"
  /\ Nested(txLog) < MaxNested
  /\ \E beginOk \in HandleAnswers, endOk \in HandleAnswers :
       IF beginOk
       THEN /\ snapshot' = table
            /\ table' = table
            /\ txOpen' = ~endOk
            /\ txLog' = txLog \o
                 <<Step("nestedBegin", TRUE),
                   Step(IF threw THEN "nestedRollback" ELSE "nestedCommit", endOk)>>
                 \o (IF ~threw /\ ~endOk
                     THEN <<Step("nestedRollback", FALSE)>> ELSE <<>>)
       ELSE /\ snapshot' = snapshot
            /\ table' = IF endOk /\ txOpen THEN snapshot ELSE table
            /\ txOpen' = (txOpen /\ ~endOk)
            /\ txLog' = txLog \o
                 <<Step("nestedBegin", FALSE), Step("nestedRollback", endOk)>>
  /\ UNCHANGED <<txPc, handleOpen, written, yielded, outcome, sent, txnFrame>>

\* The callback calls close() on the transaction-scoped driver: its client is
\* the owner's handle, which end() or close() closes; the backend discards a
\* transaction left open on it.
CallbackClose ==
  /\ txPc = "callback"
  /\ handleOpen
  /\ handleOpen' = FALSE
  /\ txLog' = Append(txLog, Step("close", TRUE))
  /\ table' = IF txOpen THEN snapshot ELSE table
  /\ txOpen' = FALSE
  /\ UNCHANGED <<txPc, snapshot, written, yielded, outcome, sent, txnFrame>>

\* SqliteDriver: the async callback reaches its first await and hands its
\* promise to the function made by client.transaction(), which either commits
\* at once or refuses the promise and rolls back; the callback runs on.
CallbackYield ==
  /\ primaryDriver = "SqliteDriver"
  /\ txPc = "callback"
  /\ ~yielded
  /\ yielded' = TRUE
  /\ IF promiseCheck
     THEN /\ outcome' = Threw(PromiseError)
          /\ txLog' = IF txOpen THEN Append(txLog, Step("rollback", TRUE))
                      ELSE txLog
          /\ table' = IF txOpen THEN snapshot ELSE table
     ELSE /\ outcome' = IF handleOpen THEN Pending ELSE Threw(CommitError)
          /\ txLog' = Append(txLog, Step("commit", handleOpen))
          /\ table' = table
  /\ txOpen' = FALSE
  /\ UNCHANGED <<txPc, snapshot, handleOpen, written, sent, txnFrame>>

\* The callback returns (threw = FALSE) or throws.
CallbackSettle(threw) ==
  /\ txPc = "callback"
  /\ txPc' = "done"
  /\ UNCHANGED <<snapshot, handleOpen, written, yielded, sent, txnFrame>>
  /\ CASE primaryDriver = "MySQLDriver" ->
            \E commitOk \in HandleAnswers, rollbackOk \in HandleAnswers :
              \E s \in {MySQLSettle(threw, commitOk, rollbackOk)} :
                /\ txLog' = Append(txLog, Step("settled", ~threw)) \o s.events
                /\ outcome' = s.outcome
                /\ table' = IF s.restored /\ txOpen THEN snapshot ELSE table
                /\ txOpen' = (txOpen /\ ~s.restored /\ s.outcome.status = "err")
       [] primaryDriver = "LibSQLDriver" ->
            /\ txLog' = Append(txLog, Step("settled", ~threw))
            /\ outcome' = IF threw THEN Threw(CallbackError) ELSE Returned(VVoid)
            /\ UNCHANGED <<table, txOpen>>
       [] OTHER ->
            IF yielded
            THEN /\ txLog' = Append(txLog, Step("settled", ~threw))
                 /\ outcome' = IF outcome # Pending THEN outcome
                               ELSE IF threw THEN Threw(CallbackError)
                               ELSE Returned(VVoid)
                 /\ UNCHANGED <<table, txOpen>>
            ELSE /\ threw
                 /\ txLog' = Append(txLog, Step("settled", FALSE))
                              \o (IF txOpen THEN <<Step("rollback", TRUE)>>
                                  ELSE <<>>)
                 /\ outcome' = Threw(CallbackError)
                 /\ table' = IF txOpen THEN snapshot ELSE table
                 /\ txOpen' = FALSE

\* close() of the owning driver, outside a transaction.
Close ==
  /\ txPc \in {"idle", "done"}
  /\ handleOpen
  /\ handleOpen' = FALSE
  /\ txLog' = Append(txLog, Step("ownerClose", TRUE))
  /\ table' = IF txOpen THEN snapshot ELSE table
  /\ txOpen' = FALSE
  /\ UNCHANGED <<txPc, snapshot, written, yielded, outcome, sent, txnFrame>>

InitTxn ==
  /\ HttpIdle
  /\ RetryIdle
  /\ PullIdle
  /\ InspectIdle
  /\ primaryDriver \in TxnKinds
  /\ fallbackDrivers = <<>>
  /\ pc = "idle"
  /\ op = [name |-> "none", client |-> "outer", sql |-> <<>>]
  /\ idx = 1
  /\ lastError = NoError
  /\ calls = <<>>
  /\ outcome = Pending
  /\ inTxn = FALSE
  /\ cbInvoked = 0
  /\ closePending = {}
  /\ closeFailed = {}
  /\ table = {}
  /\ autoId = TRUE
  /\ prevTable = {}
  /\ sent = <<>>
  /\ txPc = "idle"
  /\ txLog = <<>>
  /\ txOpen = FALSE
  /\ snapshot = {}
  /\ handleOpen = TRUE
  /\ written = {}
  /\ yielded = FALSE
  /\ promiseCheck \in BOOLEAN

NextTxn ==
  \/ DriverTransaction
  \/ CallbackInsert
  \/ \E threw \in BOOLEAN : CallbackTransaction(threw)
  \/ CallbackClose
  \/ CallbackYield
  \/ \E threw \in BOOLEAN : CallbackSettle(threw)
  \/ Close

SpecTxn == InitTxn /\ [][NextTxn]_vars

\* ============================================================ pull.ts
\* Text is a sequence of strings: names are spelled character by character,
\* fixed pieces of a template stay whole.
UpperCaseLetters ==
  <<"A", "B", "C", "D", "E", "F", "G", "H", "I", "J", "K", "L", "M",
    "N", "O", "P", "Q", "R", "S", "T", "U", "V", "W", "X", "Y", "Z">>

LowerCaseLetters ==
  <<"a", "b", "c", "d", "e", "f", "g", "h", "i", "j", "k", "l", "m",
    "n", "o", "p", "q", "r", "s", "t", "u", "v", "w", "x", "y", "z">>

Alphabet == 1..Len(UpperCaseLetters)

LowerChar(c) ==
  IF \E i \in Alphabet : UpperCaseLetters[i] = c
  THEN LowerCaseLetters[CHOOSE i \in Alphabet : UpperCaseLetters[i] = c]
  ELSE c

UpperChar(c) ==
  IF \E i \in Alphabet : LowerCaseLetters[i] = c
  THEN UpperCaseLetters[CHOOSE i \in Alphabet : LowerCaseLetters[i] = c]
  ELSE c

\* String.prototype.toLowerCase and toUpperCase.
toLowerCase(s) == [i \in 1..Len(s) |-> LowerChar(s[i])]

toUpperCase(s) == [i \in 1..Len(s) |-> UpperChar(s[i])]

\* case 'uuid'
UuidTypes ==
  {<<"u", "u", "i", "d">>}

\* case 'character varying' ... 'tinytext'
TextTypes ==
  {<<"c", "h", "a", "r", "a", "c", "t", "e", "r", " ", "v", "a", "r", "y", "i", "n", "g">>,
   <<"v", "a", "r", "c", "h", "a", "r">>,
   <<"t", "e", "x", "t">>,
   <<"c", "h", "a", "r">>,
   <<"c", "h", "a", "r", "a", "c", "t", "e", "r">>,
   <<"l", "o", "n", "g", "t", "e", "x", "t">>,
   <<"m", "e", "d", "i", "u", "m", "t", "e", "x", "t">>,
   <<"t", "i", "n", "y", "t", "e", "x", "t">>}

\* case 'integer' ... 'double'
NumberTypes ==
  {<<"i", "n", "t", "e", "g", "e", "r">>,
   <<"i", "n", "t">>,
   <<"i", "n", "t", "4">>,
   <<"s", "m", "a", "l", "l", "i", "n", "t">>,
   <<"i", "n", "t", "2">>,
   <<"b", "i", "g", "i", "n", "t">>,
   <<"i", "n", "t", "8">>,
   <<"s", "e", "r", "i", "a", "l">>,
   <<"b", "i", "g", "s", "e", "r", "i", "a", "l">>,
   <<"n", "u", "m", "e", "r", "i", "c">>,
   <<"d", "e", "c", "i", "m", "a", "l">>,
   <<"r", "e", "a", "l">>,
   <<"f", "l", "o", "a", "t", "4">>,
   <<"d", "o", "u", "b", "l", "e", " ", "p", "r", "e", "c", "i", "s", "i", "o", "n">>,
   <<"f", "l", "o", "a", "t", "8">>,
   <<"t", "i", "n", "y", "i", "n", "t">>,
   <<"m", "e", "d", "i", "u", "m", "i", "n", "t">>,
   <<"f", "l", "o", "a", "t">>,
   <<"d", "o", "u", "b", "l", "e">>}

\* case 'boolean', 'bool', 'bit'
BooleanTypes ==
  {<<"b", "o", "o", "l", "e", "a", "n">>,
   <<"b", "o", "o", "l">>,
   <<"b", "i", "t">>}

\* case 'timestamp' ... 'year'
DateTypes ==
  {<<"t", "i", "m", "e", "s", "t", "a", "m", "p">>,
   <<"t", "i", "m", "e", "s", "t", "a", "m", "p", " ", "w", "i", "t", "h", " ", "t", "i", "m", "e", " ", "z", "o", "n", "e">>,
   <<"t", "i", "m", "e", "s", "t", "a", "m", "p", " ", "w", "i", "t", "h", "o", "u", "t", " ", "t", "i", "m", "e", " ", "z", "o", "n", "e">>,
   <<"t", "i", "m", "e", "s", "t", "a", "m", "p", "t", "z">>,
   <<"d", "a", "t", "e">>,
   <<"t", "i", "m", "e">>,
   <<"t", "i", "m", "e", " ", "w", "i", "t", "h", " ", "t", "i", "m", "e", " ", "z", "o", "n", "e">>,
   <<"t", "i", "m", "e", " ", "w", "i", "t", "h", "o", "u", "t", " ", "t", "i", "m", "e", " ", "z", "o", "n", "e">>,
   <<"t", "i", "m", "e", "t", "z">>,
   <<"i", "n", "t", "e", "r", "v", "a", "l">>,
   <<"d", "a", "t", "e", "t", "i", "m", "e">>,
   <<"y", "e", "a", "r">>}

\* case 'json', 'jsonb'
JsonTypes ==
  {<<"j", "s", "o", "n">>,
   <<"j", "s", "o", "n", "b">>}

\* case 'array'
ArrayTypes ==
  {<<"a", "r", "r", "a", "y">>}

\* case 'bytea' ... 'tinyblob'
BufferTypes ==
  {<<"b", "y", "t", "e", "a">>,
   <<"b", "i", "n", "a", "r", "y">>,
   <<"v", "a", "r", "b", "i", "n", "a", "r", "y">>,
   <<"b", "l", "o", "b">>,
   <<"l", "o", "n", "g", "b", "l", "o", "b">>,
   <<"m", "e", "d", "i", "u", "m", "b", "l", "o", "b">>,
   <<"t", "i", "n", "y", "b", "l", "o", "b">>}

\* case 'enum', 'set'
EnumTypes ==
  {<<"e", "n", "u", "m">>,
   <<"s", "e", "t">>}

\* A lookup that compares dataType as given, without lower-casing it.
mapDatabaseTypeCaseSensitive(dataType, isNullable, driverType) ==
  LET nullable == IF isNullable THEN <<" | null">> ELSE <<>>
  IN CASE dataType \in UuidTypes \cup TextTypes \cup EnumTypes
            -> <<"string">> \o nullable
       [] dataType \in NumberTypes -> <<"number">> \o nullable
       [] dataType \in BooleanTypes -> <<"boolean">> \o nullable
       [] dataType \in DateTypes -> <<"Date">> \o nullable
       [] dataType \in JsonTypes -> <<"any">> \o nullable
       [] dataType \in ArrayTypes -> <<"any[]">> \o nullable
       [] dataType \in BufferTypes -> <<"Buffer">> \o nullable
       [] OTHER -> <<"any">> \o nullable

mapDatabaseTypeToTypeScript(dataType, isNullable, driverType) ==
  LET nullable == IF isNullable THEN <<" | null">> ELSE <<>>
      lowerType == toLowerCase(dataType)
  IN CASE lowerType \in UuidTypes -> <<"string">> \o nullable
       [] lowerType \in TextTypes -> <<"string">> \o nullable
       [] lowerType \in NumberTypes -> <<"number">> \o nullable
       [] lowerType \in BooleanTypes -> <<"boolean">> \o nullable
       [] lowerType \in DateTypes -> <<"Date">> \o nullable
       [] lowerType \in JsonTypes -> <<"any">> \o nullable
       [] lowerType \in ArrayTypes -> <<"any[]">> \o nullable
       [] lowerType \in BufferTypes -> <<"Buffer">> \o nullable
       [] lowerType \in EnumTypes -> <<"string">> \o nullable
       [] OTHER -> <<"any">> \o nullable

\* The type names the switch knows.
KnownTypes ==
  UNION {UuidTypes, TextTypes, NumberTypes, BooleanTypes, DateTypes, JsonTypes,
         ArrayTypes, BufferTypes, EnumTypes}

\* First letter upper-cased, as tableName.charAt(0).toUpperCase() does.
TitleCase(s) == IF Len(s) = 0 THEN s ELSE <<UpperChar(s[1])>> \o Tail(s)

\* Names no case of the switch matches.
UnknownTypes ==
  {<<"m", "a", "d", "e", "_", "u", "p", "_", "t", "y", "p", "e", "_", "x", "y", "z">>,
   <<"U", "S", "E", "R", "-", "D", "E", "F", "I", "N", "E", "D">>,
   <<"m", "o", "n", "e", "y">>,
   <<"i", "n", "t", " ">>,
   <<>>}

\* The type names given to the mapping: every known name in lower case, in
\* upper case and with a capital first letter, and the unknown ones.
TypeInputs ==
  KnownTypes \cup {toUpperCase(t) : t \in KnownTypes}
             \cup {TitleCase(t) : t \in KnownTypes} \cup UnknownTypes

\* mapDatabaseTypeToTypeScript(col.data_type, col.is_nullable === YES) is called.
MapType ==
  /\ tsType = Unmapped
  /\ tsType' = mapDatabaseTypeToTypeScript(data_type, is_nullable, "postgres")
  /\ UNCHANGED <<data_type, is_nullable>>
  /\ UNCHANGED <<clientVars, backendVars, txnVars, inspectVars, httpVars, retryVars>>

\* The caller moves on to another column.
NextColumn ==
  /\ tsType # Unmapped
  /\ data_type' \in TypeInputs
  /\ is_nullable' \in BOOLEAN
  /\ tsType' = Unmapped
  /\ UNCHANGED <<clientVars, backendVars, txnVars, inspectVars, httpVars, retryVars>>

InitMap ==
  /\ HttpIdle
  /\ RetryIdle
  /\ TxnIdle
  /\ InspectIdle
  /\ primaryDriver = "PostgresDriver"
  /\ fallbackDrivers = <<>>
  /\ pc = "idle"
  /\ op = [name |-> "none", client |-> "outer", sql |-> <<>>]
  /\ idx = 1
  /\ lastError = NoError
  /\ calls = <<>>
  /\ outcome = Pending
  /\ inTxn = FALSE
  /\ cbInvoked = 0
  /\ closePending = {}
  /\ closeFailed = {}
  /\ table = {}
  /\ autoId = TRUE
  /\ prevTable = {}
  /\ sent = <<>>
  /\ data_type \in TypeInputs
  /\ is_nullable \in BOOLEAN
  /\ tsType = Unmapped

NextMap == MapType \/ NextColumn

SpecMap == InitMap /\ [][NextMap]_vars

\* ---------------------------------------------------------------- inspectDB
MaxTables == 3

\* Table names the backend can list, in the order ORDER BY name gives them.
TableNames == <<<<"p", "o", "s", "t", "s">>, <<"u", "s", "e", "r", "s">>, <<"z", "o", "n", "e", "s">>>>

RECURSIVE Ascending(_)
Ascending(s) ==
  IF Len(s) < 2 THEN TRUE ELSE s[1] < s[2] /\ Ascending(Tail(s))

\* The rows a table-list query can return: names in ascending order.
TableLists ==
  {[i \in 1..Len(picks) |-> TableNames[picks[i]]] :
     picks \in {p \in UNION {[1..n -> 1..Len(TableNames)] : n \in 0..MaxTables} :
                  Ascending(p)}}

Column(name, type, nullable) ==
  [column_name |-> name, data_type |-> type, is_nullable |-> nullable]

ColumnId == Column(<<"i", "d">>, <<"I", "N", "T", "E", "G", "E", "R">>, "NO")

ColumnName == Column(<<"n", "a", "m", "e">>, <<"t", "e", "x", "t">>, "YES")

\* How the column query of a table can settle: rejected after the retries of
\* retryQuery, rejected by withTimeout, or resolved with its rows.
QueryFailed == [status |-> "failed", rows |-> <<>>]

QueryTimeout == [status |-> "timeout", rows |-> <<>>]

QueryRows(rows) == [status |-> "ok", rows |-> rows]

ColumnResults ==
  {QueryFailed, QueryTimeout, QueryRows(<<>>), QueryRows(<<ColumnId>>),
   QueryRows(<<ColumnId, ColumnName>>),
   QueryRows(<<ColumnId, Column(<<"i", "d">>, <<"t", "e", "x", "t">>, "YES")>>)}

\* new Map keyed by column_name, filled unless the key is there already.
RECURSIVE uniqueColumns(_, _)
uniqueColumns(rows, seen) ==
  IF Len(rows) = 0 THEN <<>>
  ELSE IF rows[1].column_name \in seen THEN uniqueColumns(Tail(rows), seen)
  ELSE <<rows[1]>> \o uniqueColumns(Tail(rows), seen \cup {rows[1].column_name})

InterfaceHead(name) == <<"export interface ">> \o name \o <<" {">>

FieldLine(col, activeKind) ==
  <<"  ">> \o col.column_name \o <<": ">>
    \o mapDatabaseTypeToTypeScript(col.data_type, col.is_nullable = "YES",
                                   activeKind)
    \o <<";">>

\* The lines one table adds to generatedTypes.
InterfaceLines(tableName, rows, activeKind) ==
  LET cols == uniqueColumns(rows, {})
  IN <<InterfaceHead(TitleCase(tableName))>>
       \o [i \in 1..Len(cols) |-> FieldLine(cols[i], activeKind)]
       \o <<<<"}">>, <<>>>>

\* The lines of the Database interface.
DatabaseLines(rows) ==
  <<InterfaceHead(<<"D", "a", "t", "a", "b", "a", "s", "e">>)>>
    \o [i \in 1..Len(rows) |->
          <<"  ">> \o TitleCase(rows[i]) \o <<": ">> \o TitleCase(rows[i])
            \o <<";">>]
    \o <<<<"}">>, <<>>>>

\* A catch block of the table loop that throws away what was generated.
CatchTableReset(types) == <<>>

\* The catch block of the table loop: log and continue with what was generated.
CatchTable(types) == types

SupportedDrivers == {"postgres", "postgresHTTP", "mysql", "libsql"}

\* inspectDB up to the table loop: for mysql the database-name query, then the
\* table-list query; either failing ends the process with exit code 1.
InspectDB ==
  /\ ipc = "idle"
  /\ \E databaseOk \in BOOLEAN, listed \in {"failed", "timeout", "ok"},
        rows \in TableLists :
       IF (activeDriver = "mysql" /\ ~databaseOk) \/ listed # "ok"
       THEN /\ ipc' = "done"
            /\ exitCode' = 1
            /\ listError' = IF activeDriver = "mysql" /\ ~databaseOk
                            THEN "database" ELSE listed
            /\ tableRows' = <<>>
       ELSE /\ ipc' = "tables"
            /\ exitCode' = Running
            /\ listError' = "none"
            /\ tableRows' = rows
  /\ UNCHANGED <<activeDriver, processedTables, generatedTypes, inspected,
                 dbTypes>>
  /\ UNCHANGED <<clientVars, backendVars, txnVars, pullVars, httpVars, retryVars>>

\* One turn of the loop over tables.rows: the column query, then the interface
\* unless the query failed or returned no rows.
InspectTable ==
  /\ ipc = "tables"
  /\ processedTables < Len(tableRows)
  /\ processedTables' = processedTables + 1
  /\ \E result \in ColumnResults :
       /\ inspected' = Append(inspected, result)
       /\ generatedTypes' =
            IF result.status # "ok" THEN CatchTable(generatedTypes)
            ELSE IF Len(result.rows) = 0 THEN generatedTypes
            ELSE generatedTypes
                   \o InterfaceLines(tableRows[processedTables + 1], result.rows,
                                     activeDriver)
  /\ UNCHANGED <<activeDriver, ipc, tableRows, dbTypes, exitCode, listError>>
  /\ UNCHANGED <<clientVars, backendVars, txnVars, pullVars, httpVars, retryVars>>

\* After the loop: the Database interface, fs.writeFile and process.exit.
WriteTypes ==
  /\ ipc = "tables"
  /\ processedTables = Len(tableRows)
  /\ generatedTypes' = generatedTypes \o DatabaseLines(tableRows)
  /\ \E writeOk \in BOOLEAN :
       /\ dbTypes' = IF writeOk THEN [written |-> TRUE, text |-> generatedTypes']
                     ELSE dbTypes
       /\ exitCode' = IF writeOk THEN 0 ELSE 1
  /\ ipc' = "done"
  /\ UNCHANGED <<activeDriver, tableRows, processedTables, inspected, listError>>
  /\ UNCHANGED <<clientVars, backendVars, txnVars, pullVars, httpVars, retryVars>>

InitInspect ==
  /\ HttpIdle
  /\ RetryIdle
  /\ TxnIdle
  /\ PullIdle
  /\ primaryDriver = "PostgresDriver"
  /\ fallbackDrivers = <<>>
  /\ pc = "idle"
  /\ op = [name |-> "none", client |-> "outer", sql |-> <<>>]
  /\ idx = 1
  /\ lastError = NoError
  /\ calls = <<>>
  /\ outcome = Pending
  /\ inTxn = FALSE
  /\ cbInvoked = 0
  /\ closePending = {}
  /\ closeFailed = {}
  /\ table = {}
  /\ autoId = TRUE
  /\ prevTable = {}
  /\ sent = <<>>
  /\ activeDriver \in SupportedDrivers
  /\ ipc = "idle"
  /\ tableRows = <<>>
  /\ processedTables = 0
  /\ generatedTypes = <<>>
  /\ inspected = <<>>
  /\ dbTypes = NoFile
  /\ exitCode = Running
  /\ listError = "none"

NextInspect ==
  \/ InspectDB
  \/ InspectTable
  \/ WriteTypes

SpecInspect == InitInspect /\ [][NextInspect]_vars


\* ------------------------------------------- retryQuery and withTimeout
\* inspectDB awaits withTimeout(retryQuery(queryFn), 15_000) for the column
\* query of one table after another.  Each retryQuery call is a loop of its
\* own; the race returned by withTimeout settles with the loop or with the
\* timer, whichever is first, and nothing tells the loop when the timer won.

QueryFnError(t, n) == [name |-> "QueryError", table |-> t, attempt |-> n]
MaxRetriesExceeded == PlainError(<<"Max retries exceeded">>)
TimeoutError == PlainError(<<"Query timeout after 15000ms">>)

\* const delay = baseDelay * Math.pow(2, attempt - 1)
RetryDelayConstant(baseDelay, n) == baseDelay
RetryDelay(baseDelay, n) == baseDelay * 2 ^ (n - 1)

\* Promise.race: the first settlement wins, later ones are ignored.
Race(current, settled) == IF current = Pending THEN settled ELSE current

\* The inspector reaches table t: retryQuery is called and, unless maxRetries
\* is 0, calls queryFn at once; withTimeout starts its timer.
StartColumnQuery(t) ==
  /\ ~exited
  /\ inspecting = t - 1
  /\ t > 1 => raceResult[t - 1] # Pending
  /\ inspecting' = t
  /\ IF 1 <= maxRetries
       THEN /\ attempt' = [attempt EXCEPT ![t] = 1]
            /\ queryCalls' = [queryCalls EXCEPT ![t] = 1]
            /\ retryPc' = [retryPc EXCEPT ![t] = "query"]
            /\ UNCHANGED <<retryResult, raceResult>>
       ELSE /\ attempt' = [attempt EXCEPT ![t] = 1]
            /\ retryPc' = [retryPc EXCEPT ![t] = "done"]
            /\ retryResult' = [retryResult EXCEPT ![t] = Threw(MaxRetriesExceeded)]
            /\ raceResult' = [raceResult EXCEPT ![t] = Threw(MaxRetriesExceeded)]
            /\ UNCHANGED queryCalls
  /\ UNCHANGED <<maxRetries, delays, exited>>
  /\ UNCHANGED <<clientVars, backendVars, txnVars, pullVars, inspectVars, httpVars>>

\* The promise of queryFn settles: return on success, rethrow after the last
\* attempt, otherwise start the backoff delay.
QuerySettle(t, ok) ==
  /\ ~exited
  /\ retryPc[t] = "query"
  /\ IF ok
       THEN /\ retryPc' = [retryPc EXCEPT ![t] = "done"]
            /\ retryResult' = [retryResult EXCEPT ![t] = Returned(attempt[t])]
            /\ raceResult' = [raceResult EXCEPT
                 ![t] = Race(raceResult[t], Returned(attempt[t]))]
            /\ UNCHANGED delays
       ELSE IF attempt[t] = maxRetries
         THEN /\ retryPc' = [retryPc EXCEPT ![t] = "done"]
              /\ retryResult' = [retryResult EXCEPT
                   ![t] = Threw(QueryFnError(t, attempt[t]))]
              /\ raceResult' = [raceResult EXCEPT
                   ![t] = Race(raceResult[t], Threw(QueryFnError(t, attempt[t])))]
              /\ UNCHANGED delays
         ELSE /\ retryPc' = [retryPc EXCEPT ![t] = "delay"]
              /\ delays' = [delays EXCEPT
                   ![t] = Append(delays[t], RetryDelay(DefaultBaseDelay, attempt[t]))]
              /\ UNCHANGED <<retryResult, raceResult>>
  /\ UNCHANGED <<maxRetries, attempt, queryCalls, inspecting, exited>>
  /\ UNCHANGED <<clientVars, backendVars, txnVars, pullVars, inspectVars, httpVars>>

\* The backoff timer fires: attempt++ and queryFn is called again.
DelayElapsed(t) ==
  /\ ~exited
  /\ retryPc[t] = "delay"
  /\ attempt' = [attempt EXCEPT ![t] = attempt[t] + 1]
  /\ queryCalls' = [queryCalls EXCEPT ![t] = queryCalls[t] + 1]
  /\ retryPc' = [retryPc EXCEPT ![t] = "query"]
  /\ UNCHANGED <<maxRetries, delays, retryResult, raceResult, inspecting, exited>>
  /\ UNCHANGED <<clientVars, backendVars, txnVars, pullVars, inspectVars, httpVars>>

\* The timer of withTimeout fires while the race is unsettled: the race
\* rejects; the retryQuery promise it raced is left as it is.
Timeout(t) ==
  /\ ~exited
  /\ raceResult[t] = Pending
  /\ inspecting = t
  /\ raceResult' = [raceResult EXCEPT ![t] = Threw(TimeoutError)]
  /\ UNCHANGED <<maxRetries, attempt, retryPc, queryCalls, delays, retryResult,
                 inspecting, exited>>
  /\ UNCHANGED <<clientVars, backendVars, txnVars, pullVars, inspectVars, httpVars>>

\* After the last table the types are written and process.exit(0) ends
\* whatever is still running.
ProcessExit ==
  /\ ~exited
  /\ inspecting = RetryTables
  /\ raceResult[RetryTables] # Pending
  /\ exited' = TRUE
  /\ UNCHANGED <<maxRetries, attempt, retryPc, queryCalls, delays, retryResult,
                 raceResult, inspecting>>
  /\ UNCHANGED <<clientVars, backendVars, txnVars, pullVars, inspectVars, httpVars>>

InitRetry ==
  /\ TxnIdle
  /\ PullIdle
  /\ InspectIdle
  /\ HttpIdle
  /\ primaryDriver = "PostgresDriver"
  /\ fallbackDrivers = <<>>
  /\ pc = "idle"
  /\ op = [name |-> "none", client |-> "outer", sql |-> <<>>]
  /\ idx = 1
  /\ lastError = NoError
  /\ calls = <<>>
  /\ outcome = Pending
  /\ inTxn = FALSE
  /\ cbInvoked = 0
  /\ closePending = {}
  /\ closeFailed = {}
  /\ table = {}
  /\ autoId = TRUE
  /\ prevTable = {}
  /\ sent = <<>>
  /\ maxRetries \in 0..MaxRetriesBound
  /\ attempt = [t \in 1..RetryTables |-> 0]
  /\ retryPc = [t \in 1..RetryTables |-> "idle"]
  /\ queryCalls = [t \in 1..RetryTables |-> 0]
  /\ delays = [t \in 1..RetryTables |-> <<>>]
  /\ retryResult = [t \in 1..RetryTables |-> Pending]
  /\ raceResult = [t \in 1..RetryTables |-> Pending]
  /\ inspecting = 0
  /\ exited = FALSE

NextRetry ==
  \/ \E t \in 1..RetryTables : StartColumnQuery(t)
  \/ \E t \in 1..RetryTables, ok \in BOOLEAN : QuerySettle(t, ok)
  \/ \E t \in 1..RetryTables : DelayElapsed(t)
  \/ \E t \in 1..RetryTables : Timeout(t)
  \/ ProcessExit

SpecRetry == InitRetry /\ [][NextRetry]_vars

\* Every promise queryFn returns settles and every timer set fires; the
\* inspector is not required to go on, nor the timeout to fire.
FairRetry ==
  /\ \A t \in 1..RetryTables : WF_vars(\E ok \in BOOLEAN : QuerySettle(t, ok))
  /\ \A t \in 1..RetryTables : WF_vars(DelayElapsed(t))

SpecRetryFair == InitRetry /\ [][NextRetry]_vars /\ FairRetry

\* ------------------------------------------------- Postgres over HTTP (ky)
MaxRequests == 2

\* An optional argument, left out or given.
NotGiven == [given |-> FALSE, list |-> <<>>]

Given(list) == [given |-> TRUE, list |-> list]

\* JSON.stringify of an object literal: a property whose value is undefined is
\* left out.
RECURSIVE JsonBody(_)
JsonBody(properties) ==
  IF Len(properties) = 0 THEN <<>>
  ELSE (IF properties[1].v.given
        THEN <<Entry(properties[1].k, properties[1].v.list)>> ELSE <<>>)
       \o JsonBody(Tail(properties))

Post(path, body, by) == [method |-> "POST", path |-> path, body |-> body, by |-> by]

HttpSqlInputs == {<<"SELECT 1">>, <<"SELECT * FROM", "users", "WHERE", "id", "=", "$1">>}

ParamInputs == {NotGiven, Given(<<>>), Given(<<1>>)}

\* What the server answers: rows, or the request fails.
HttpAnswer(by, sql, ok) ==
  IF ok THEN Returned(VResult(<<>>, 0))
  ELSE IF by = "DriftSQLClient" THEN Threw(NativeFailure("P"))
  ELSE Threw(QueryError("postgres-http", sql, NativeFailure("P")))

\* The request is posted and the call settles with the server's answer.
HttpQuery(by, body, sql) ==
  /\ Len(requests) < MaxRequests
  /\ requests' = Append(requests, Post("query", body, by))
  /\ \E ok \in BOOLEAN : outcome' = HttpAnswer(by, sql, ok)
  /\ UNCHANGED <<primaryDriver, fallbackDrivers, pc, op, idx, lastError, calls,
                 inTxn, cbInvoked, closePending, closeFailed>>
  /\ UNCHANGED <<backendVars, txnVars, pullVars, inspectVars, retryVars>>

\* PostgresHTTPDriver.query of src/drivers/postgres.ts.
PostgresHTTPDriverQuery ==
  \E sql \in HttpSqlInputs, params \in ParamInputs :
    HttpQuery("PostgresHTTPDriver",
              JsonBody(<<Entry("query", Given(sql)), Entry("args", params)>>), sql)

\* PostgresHTTPDriver.query of the earlier postgres driver file.
EarlierPostgresHTTPDriverQuery ==
  \E sql \in HttpSqlInputs, params \in ParamInputs :
    HttpQuery("PostgresHTTPDriver (earlier)",
              JsonBody(<<Entry("query", Given(sql)), Entry("params", params)>>),
              sql)

\* DriftSQLClient.query with no native client configured: args || [].
DriftSQLClientQuery ==
  \E query \in HttpSqlInputs, args \in ParamInputs :
    HttpQuery("DriftSQLClient",
              JsonBody(<<Entry("query", Given(query)),
                         Entry("args", IF args.given THEN args ELSE Given(<<>>))>>),
              query)

InitHttp ==
  /\ TxnIdle
  /\ PullIdle
  /\ InspectIdle
  /\ primaryDriver = "PostgresDriverHTTP"
  /\ fallbackDrivers = <<>>
  /\ pc = "idle"
  /\ op = [name |-> "none", client |-> "outer", sql |-> <<>>]
  /\ idx = 1
  /\ lastError = NoError
  /\ calls = <<>>
  /\ outcome = Pending
  /\ inTxn = FALSE
  /\ cbInvoked = 0
  /\ closePending = {}
  /\ closeFailed = {}
  /\ table = {}
  /\ autoId = TRUE
  /\ prevTable = {}
  /\ sent = <<>>
  /\ requests = <<>>
  /\ RetryIdle

NextHttp ==
  \/ PostgresHTTPDriverQuery
  \/ EarlierPostgresHTTPDriverQuery
  \/ DriftSQLClientQuery

SpecHttp == InitHttp /\ [][NextHttp]_vars

\* ================================================================== claims
\* The drivers a query of client c is to try, in order, read off the client's
\* fields.
ListedDrivers(c) ==
  IF c = "outer" THEN <<"P">> \o fallbackDrivers ELSE <<"T">>

\* C1: SQLClient.query calls primaryDriver.query first and then the fallback
\* drivers strictly in list order, each only after the previous one failed;
\* it returns the result of the first driver that succeeds and calls no
\* driver after that one.
C1_QueryInListOrder ==
  (op.name = "query" /\ op.client = "outer") =>
    /\ Len(calls) <= 1 + Len(fallbackDrivers)
    /\ \A i \in DOMAIN calls :
         /\ calls[i].driver = (<<"P">> \o fallbackDrivers)[i]
         /\ calls[i].method = "query"
         /\ i < Len(calls) => calls[i].result.status = "err"
    /\ outcome.status = "ok" =>
         /\ pc = "idle"
         /\ Len(calls) >= 1
         /\ outcome = calls[Len(calls)].result
         /\ outcome.value = VResult(<<[src |-> calls[Len(calls)].driver]>>, 1)
    /\ (pc = "query" /\ Len(calls) >= 1) => calls[Len(calls)].result.status = "err"

\* C1 witness: primary and first fallback failed, the second fallback's
\* result was returned.
C1_Witness ==
  /\ op.name = "query" /\ op.client = "outer" /\ pc = "idle"
  /\ Len(fallbackDrivers) = 2
  /\ Len(calls) = 3
  /\ outcome = Returned(VResult(<<[src |-> fallbackDrivers[2]]>>, 1))

\* C2: when the primary and every fallback fail, query raises the error of
\* the last driver attempted, never that of an earlier driver.
C2_LastErrorWins ==
  (op.name = "query" /\ pc = "idle" /\ outcome.status = "err") =>
    LET listed == ListedDrivers(op.client)
        n == Len(listed) IN
    /\ Len(calls) = n
    /\ calls[n].driver = listed[n]
    /\ outcome.error = calls[n].result.error
    /\ outcome.error.originalError = PlainError(<<"native failure of", listed[n]>>)
    /\ \A i \in 1..(n - 1) : outcome.error # calls[i].result.error

\* C2 witness: the primary and two fallbacks all failed.
C2_Witness ==
  /\ op.name = "query" /\ op.client = "outer" /\ pc = "idle"
  /\ Len(calls) = 3
  /\ outcome.status = "err"

\* C3: transaction(cb) on a client whose primary driver has no transaction
\* function fails with a DatabaseError, never invokes cb and calls no driver
\* method.
C3_TransactionGated ==
  (primaryDriver \notin TransactionKinds) =>
    /\ ~inTxn
    /\ cbInvoked = 0
    /\ op.name = "transaction" =>
         /\ outcome.status = "err"
         /\ outcome.error.name = "DatabaseError"
         /\ outcome.error.message = <<"Primary driver does not support transactions">>
         /\ calls = <<>>

\* C3 witness: transaction() was called on a NeonDriver client and threw.
C3_Witness ==
  /\ primaryDriver = "NeonDriver"
  /\ op.name = "transaction"
  /\ outcome.status = "err"

\* C4: no operation issued through the transaction client reaches a fallback
\* driver of the outer client; a query that fails on the transaction driver
\* fails to the callback without a retry.
C4_NoFallbackInTransaction ==
  /\ \A i \in DOMAIN calls : calls[i].client = "txn" => calls[i].driver = "T"
  /\ (op.client = "txn" /\ op.name = "query" /\ Len(calls) >= 1
        /\ calls[1].result.status = "err") =>
       /\ Len(calls) = 1
       /\ pc = "idle" => outcome = calls[1].result

\* C4 witness: inside a transaction of a client that has fallbacks, a query
\* through the transaction client failed.
C4_Witness ==
  /\ inTxn
  /\ Len(fallbackDrivers) = 2
  /\ op.client = "txn" /\ op.name = "query" /\ pc = "idle"
  /\ outcome.status = "err"

\* C5: findFirst, findMany, insert, update and delete only ever call the
\* primary driver: with the method missing they fail with a capability
\* error, with the method failing they fail, and no fallback is called.
C5_HelpersPrimaryOnly ==
  (op.name \in CrudMethods) =>
    /\ \A i \in DOMAIN calls :
         calls[i].driver = (IF op.client = "outer" THEN "P" ELSE "T")
    /\ primaryDriver \notin CrudKinds =>
         /\ calls = <<>>
         /\ outcome.status = "err"
         /\ outcome.error.name = "DatabaseError"
         /\ outcome.error.message = <<"Primary driver does not support", op.name>>
    /\ (primaryDriver \in CrudKinds /\ op.resp.status = "err") =>
         /\ Len(calls) = 1
         /\ outcome.status = "err"

\* C5 witness: insert on a client with two fallbacks, the primary's insert
\* failed.
C5_Witness ==
  /\ op.name = "insert" /\ op.client = "outer"
  /\ Len(fallbackDrivers) = 2
  /\ primaryDriver \in CrudKinds
  /\ op.resp.status = "err"
  /\ outcome.status = "err"

\* C6: close() invokes close on the primary and on every fallback exactly
\* once each, whichever of those calls fail, and itself completes without
\* raising.
C6_CloseBestEffort ==
  (op.name = "close") =>
    LET listed == ListedDrivers(op.client) IN
    /\ Len(calls) = Len(listed)
    /\ \A i \in DOMAIN listed :
         /\ calls[i].driver = listed[i]
         /\ calls[i].method = "close"
    /\ outcome.status # "err"
    /\ pc = "idle" => outcome = Returned(VVoid)
    /\ closeFailed \subseteq SetOf(listed)

\* C6 witness: close() returned although the primary's close and a
\* fallback's close both failed.
C6_Witness ==
  /\ op.name = "close" /\ op.client = "outer" /\ pc = "idle"
  /\ Len(fallbackDrivers) = 2
  /\ closeFailed = {"P", fallbackDrivers[2]}
  /\ outcome = Returned(VVoid)

\* ------------------------------------------------ helpers over a real driver
\* Does the row satisfy every key = value of the where object?
MatchesWhere(row, where) ==
  \A i \in DOMAIN where : ColumnValue(row, where[i].k) = where[i].v

\* C7: for every driver that implements the CRUD helpers, update with empty
\* data, update with empty where and delete with empty where each fail with an
\* error and hand no statement at all to the native client; the table stays
\* as it was.
C7_EmptyInputSendsNothing ==
  (/\ primaryDriver \in CrudKinds
   /\ \/ (op.name = "update" /\ (op.args.data = <<>> \/ op.args.where = <<>>))
      \/ (op.name = "delete" /\ op.args.where = <<>>))
  => /\ op.resp.status = "err"
     /\ outcome.status = "err"
     /\ sent = <<>>
     /\ table = prevTable

\* An update with data but an empty where, on a driver with CRUD helpers,
\* against a table that holds rows.
C7_Witness ==
  /\ primaryDriver \in CrudKinds \ {"BunDriverOther"}
  /\ op.name = "update"
  /\ op.args.data # <<>>
  /\ op.args.where = <<>>
  /\ table # {}
  /\ sent = <<>>

\* C8: findFirst returns null and raises no error when the query succeeds
\* with zero matching rows, both at the driver (PostgresDriver, LibSQLDriver,
\* MySQLDriver) and through SQLClient.findFirst.
C8_FindFirstNullOnZeroRows ==
  (/\ op.name = "findFirst"
   /\ primaryDriver \in {"PostgresDriver", "LibSQLDriver", "MySQLDriver"}
   /\ op.args.fails = {}
   /\ ~\E row \in table : MatchesWhere(row, op.args.where))
  => /\ op.resp = Returned(VNull)
     /\ outcome = Returned(VNull)

\* C9: insert fails with a 'no data returned' error whenever the backend
\* accepts the INSERT but the inserted row cannot be obtained; it never
\* reports success with an empty rows list, and SQLClient.insert never
\* returns undefined.
C9_InsertRowOrNoDataReturned ==
  op.name = "insert" =>
    /\ (table # prevTable /\ ~(op.resp.status = "ok" /\ Len(op.resp.value.rows) > 0))
         => op.resp = Threw(NoDataReturned)
    /\ op.resp.status = "ok" => Len(op.resp.value.rows) > 0
    /\ outcome # Returned(VUndefined)

\* C10: delete(table, where) with a non-empty where returns the number of
\* rows the backend deleted, for every driver implementing delete.
C10_DeleteReturnsDeletedCount ==
  (/\ op.name = "delete"
   /\ op.args.where # <<>>
   /\ op.resp.status = "ok")
  => /\ op.resp.value = VNum(Cardinality(prevTable \ table))
     /\ outcome = Returned(VNum(Cardinality(prevTable \ table)))

\* Does the token sequence `part` occur in `whole`?
Contains(whole, part) ==
  \E i \in 1..(Len(whole) - Len(part) + 1) :
    SubSeq(whole, i, i + Len(part) - 1) = part

\* The error at the bottom of an originalError chain.
RECURSIVE RootCause(_)
RootCause(e) ==
  IF e.originalError = NoError THEN e ELSE RootCause(e.originalError)

\* C11: whenever a driver's query fails in the native client, the error
\* raised is a QueryError whose driverType is that driver's backend tag, whose
\* message contains the SQL text that was attempted, and whose originalError
\* leads to the native error; for every driver, NeonDriver included.
\* (findMany returns this.query(sql, params) as it settles.)
C11_QueryErrorCarriesSqlAndCause ==
  (/\ op.name = "findMany"
   /\ primaryDriver \in CrudKinds \ {"BunDriverOther"}
   /\ op.args.fails = {1})
  => /\ op.resp.status = "err"
     /\ op.resp.error.name = "QueryError"
     /\ op.resp.error.driverType = DriverTag(primaryDriver)
     /\ Contains(op.resp.error.message, sent[1].sql)
     /\ op.resp.error.originalError # NoError
     /\ RootCause(op.resp.error) = NativeFailure("P")

\* C12: when the primary driver's findFirst/findMany/insert/update/delete
\* fails with error E, the corresponding SQLClient method fails with E
\* unchanged.
C12_HelperErrorUnchanged ==
  (/\ op.name \in CrudMethods
   /\ op.resp.status = "err")
  => outcome = op.resp

\* The steps of transaction() on the connection and around the callback.
IsTransactionStep(e) ==
  e.step \in {"begin", "callback", "settled", "commit", "rollback"}

TransactionSteps == SelectSeq(txLog, IsTransactionStep)

Began == <<Step("begin", TRUE), Step("callback", TRUE)>>

Took(name) == \E i \in 1..Len(txLog) : txLog[i].step = name

\* C14: when the callback of LibSQLDriver.transaction or SqliteDriver.transaction
\* has inserted rows through the transaction-scoped driver and then thrown, none
\* of those rows is in the table once transaction() has rejected.
C14_ThrowRollsBackWrites ==
  (/\ primaryDriver \in {"LibSQLDriver", "SqliteDriver"}
   /\ txPc = "done"
   /\ Step("settled", FALSE) \in SeqToSet(txLog)
   /\ outcome.status = "err"
   /\ ~Took("close") /\ ~Took("ownerClose"))
  => \A row \in table : row.id \notin written

\* C15: close() on the transaction-scoped driver leaves the native handle open;
\* only close() of the owning driver releases it.
C15_ScopedCloseKeepsHandle ==
  (Took("close") /\ ~Took("ownerClose")) => handleOpen

TargetTypes ==
  {<<"string">>, <<"number">>, <<"boolean">>, <<"Date">>, <<"any">>, <<"any[]">>,
   <<"Buffer">>}

\* C16: mapDatabaseTypeToTypeScript returns, for every type name and whatever
\* the case of its letters, one of the target types, 'any' for a name it does
\* not know, and with isNullable the non-nullable result followed by ' | null'.
C16_TypeMappingTotal ==
  tsType # Unmapped =>
    LET plain == mapDatabaseTypeToTypeScript(data_type, FALSE, "postgres")
    IN /\ plain \in TargetTypes
       /\ tsType = plain \o (IF is_nullable THEN <<" | null">> ELSE <<>>)
       /\ plain = mapDatabaseTypeToTypeScript(toLowerCase(data_type), FALSE,
                                              "postgres")
       /\ plain = mapDatabaseTypeToTypeScript(toUpperCase(data_type), FALSE,
                                              "postgres")
       /\ toLowerCase(data_type) \notin KnownTypes => plain = <<"any">>

\* A nullable column of an unknown type has been mapped, and so has a known
\* type spelled in capitals.
C16_Witness ==
  /\ tsType # Unmapped
  /\ \/ /\ data_type \in UnknownTypes /\ Len(data_type) > 0 /\ is_nullable
        /\ tsType = <<"any", " | null">>
     \/ /\ data_type = toUpperCase(data_type) /\ data_type # toLowerCase(data_type)
        /\ tsType = <<"number">>

IsInterfaceHead(line) == Len(line) >= 2 /\ line[1] = "export interface "

\* The names of the interfaces declared in a text, in the order of the text.
InterfaceNames(text) ==
  LET heads == SelectSeq(text, IsInterfaceHead)
  IN [i \in 1..Len(heads) |-> SubSeq(heads[i], 2, Len(heads[i]) - 1)]

\* The record types of the tables whose column query resolved (with at least
\* one row when needRows), in the order of the table list.
RECURSIVE HealthyTypes(_, _, _)
HealthyTypes(names, results, needRows) ==
  IF Len(names) = 0 \/ Len(results) = 0 THEN <<>>
  ELSE (IF results[1].status = "ok" /\ (needRows => Len(results[1].rows) > 0)
        THEN <<TitleCase(names[1])>> ELSE <<>>)
       \o HealthyTypes(Tail(names), Tail(results), needRows)

PartialSuccess(needRows) ==
  IF listError # "none"
  THEN /\ ipc = "done" /\ exitCode = 1
       /\ inspected = <<>> /\ generatedTypes = <<>> /\ dbTypes = NoFile
  ELSE /\ InterfaceNames(generatedTypes)
            = HealthyTypes(tableRows, inspected, needRows)
                \o (IF ipc = "done" THEN <<<<"D", "a", "t", "a", "b", "a", "s", "e">>>>
                    ELSE <<>>)
       /\ ipc = "done" =>
            /\ Len(inspected) = Len(tableRows)
            /\ exitCode \in {0, 1}
            /\ exitCode = 0 => dbTypes = [written |-> TRUE, text |-> generatedTypes]
            /\ exitCode = 1 => dbTypes = NoFile

\* C17 as stated: every table whose column query succeeds gets its interface,
\* the tables whose query failed or timed out are skipped, and the file is
\* written; a failed table-list query or file write ends the run.
C17_AsStated == PartialSuccess(FALSE)

\* C17: a table whose column query fails or times out is skipped, every table
\* whose column query returns at least one column gets its interface, in the
\* order of the table list, and the file is written with them; when the
\* table-list query fails no table is inspected and nothing is written, and a
\* failed file write ends the run with exit code 1.
C17_PartialSuccess == PartialSuccess(TRUE)

\* Three tables were listed, the column query of the second failed, and the
\* file holds the interfaces of the first and the third.
C17_Witness ==
  /\ ipc = "done"
  /\ exitCode = 0
  /\ Len(tableRows) = 3
  /\ inspected[1].status = "ok" /\ Len(inspected[1].rows) > 0
  /\ inspected[2].status \in {"failed", "timeout"}
  /\ inspected[3].status = "ok" /\ Len(inspected[3].rows) > 0
  /\ InterfaceNames(dbTypes.text)
       = <<TitleCase(tableRows[1]), TitleCase(tableRows[3]),
           <<"D", "a", "t", "a", "b", "a", "s", "e">>>>

\* The lines between the head of the Database interface and its closing brace.
DatabaseEntries(text) ==
  SubSeq(text, Len(text) - 1 - Len(tableRows), Len(text) - 2)

\* C18: the Database interface written by inspectDB has one entry per listed
\* table, its key the table name as listed and its value the capitalised
\* record type.
C18_DatabaseKeyIsTableName ==
  (ipc = "done" /\ dbTypes.written) =>
    DatabaseEntries(dbTypes.text)
      = [i \in 1..Len(tableRows) |->
           <<"  ">> \o tableRows[i] \o <<": ">> \o TitleCase(tableRows[i])
             \o <<";">>]

BodyKeys(request) == SeqToSet(Keys(request.body))

\* C19: every query of the HTTP Postgres variant, from PostgresDriver in HTTP
\* mode and from the client's HTTP path, is a POST to 'query' whose JSON body
\* has exactly the keys 'query' and 'params'.
C19_HttpBodyQueryAndParams ==
  \A i \in 1..Len(requests) :
    /\ requests[i].method = "POST"
    /\ requests[i].path = "query"
    /\ BodyKeys(requests[i]) = {"query", "params"}

\* The same entries with every value replaced by v.
Revalue(entries, v) == [i \in DOMAIN entries |-> Entry(entries[i].k, v)]

\* A limit or offset that is present stays present, with the value v.
RevalueOption(x, v) == IF Positive(x) THEN v ELSE x

\* The statements the helper op.name sends for the arguments of op with every
\* value replaced by v, from the table the operation started on.
Resent(v) ==
  LET a == op.args
      r == CASE op.name = "findFirst" ->
                  DriverFindFirst(primaryDriver, Revalue(a.where, v), prevTable,
                                  autoId, a.fails)
             [] op.name = "findMany" ->
                  DriverFindMany(primaryDriver, Revalue(a.where, v),
                                 RevalueOption(a.limit, v),
                                 RevalueOption(a.offset, v), prevTable, autoId,
                                 a.fails)
             [] op.name = "insert" ->
                  DriverInsert(primaryDriver, Revalue(a.data, v), prevTable, autoId,
                               a.fails)
             [] op.name = "update" ->
                  DriverUpdate(primaryDriver, Revalue(a.data, v),
                               Revalue(a.where, v), prevTable, autoId, a.fails)
             [] OTHER ->
                  DriverDelete(primaryDriver, Revalue(a.where, v), prevTable,
                               autoId, a.fails)
  IN r.sent

Placeholders(sql) == Cardinality({i \in DOMAIN sql : ParamIndex(sql, i) > 0})

Shorter(s, t) == IF Len(s) <= Len(t) THEN Len(s) ELSE Len(t)

\* C20: every statement a CRUD helper sends has as many placeholders as
\* parameters, and its text is the text the same call sends with other values
\* for the same keys and the same presence of limit and offset.
C20_SqlTextIndependentOfValues ==
  (op.name \in CrudMethods /\ HasMethod(primaryDriver, op.name)) =>
    /\ \A i \in DOMAIN sent : Placeholders(sent[i].sql) = Len(sent[i].params)
    /\ \A v \in NameVals :
         \A i \in 1..Shorter(sent, Resent(v)) : sent[i].sql = Resent(v)[i].sql

\* An update was sent with values bound for its SET and WHERE clauses, and the
\* same call with other values sends the same text with other parameters.
C20_Witness ==
  /\ op.name = "update"
  /\ Len(sent) > 0
  /\ Len(sent[1].params) = 2
  /\ \E v \in NameVals :
       /\ Len(Resent(v)) > 0
       /\ Resent(v)[1].params # sent[1].params
       /\ Resent(v)[1].sql = sent[1].sql

\* A where object that names the primary key alone.
ByKey(where) == Len(where) = 1 /\ where[1].k = "id"

RowsWithKey(rows, where) == SortedRows({row \in rows : row.id = where[1].v})

\* What LibSQLDriver's helpers answer around one row, with every statement
\* executed: insert hands back the row it stored, findFirst and findMany by
\* the key hand back the row stored under it, delete by the key answers 1 and
\* removes it.
RoundTrip(needsRowid) ==
  (/\ primaryDriver = "LibSQLDriver"
   /\ op.name \in CrudMethods
   /\ op.args.fails = {}
   /\ needsRowid => autoId)
  => /\ (op.name = "insert" /\ op.resp.status = "ok") =>
          \E row \in table \ prevTable :
            /\ op.resp.value = VResult(<<row>>, 1)
            /\ MatchesWhere(row, op.args.data)
     /\ (op.name = "findFirst" /\ ByKey(op.args.where)
           /\ RowsWithKey(table, op.args.where) # <<>>) =>
          /\ op.resp.status = "ok"
          /\ op.resp.value.rows = RowsWithKey(table, op.args.where)
     /\ (op.name = "findMany" /\ ByKey(op.args.where)
           /\ ~Positive(op.args.limit) /\ ~Positive(op.args.offset)) =>
          /\ op.resp.status = "ok"
          /\ op.resp.value.rows = RowsWithKey(table, op.args.where)
     /\ (op.name = "delete" /\ ByKey(op.args.where)
           /\ RowsWithKey(prevTable, op.args.where) # <<>>) =>
          /\ op.resp = Returned(VNum(1))
          /\ RowsWithKey(table, op.args.where) = <<>>
          /\ table \subseteq prevTable

C22_HttpTransactionsConsistent ==
  (op.name = "transaction" /\ op.client = "outer" /\ pc = "idle") =>
    /\ primaryDriver = "PostgresDriverHTTP" =>
         /\ ~supportsTransactions(primaryDriver)
         /\ outcome.status = "err"
         /\ cbInvoked = 0
    /\ supportsTransactions(primaryDriver) =>
         \/ cbInvoked >= 1
         \/ primaryDriver \in BeginKinds /\ outcome.status = "err"

\* ------------------------------------------------------------- retryQuery
RetryRunning(t) == retryPc[t] \in {"query", "delay"}

RetrySafety ==
  \A t \in 1..RetryTables :
    /\ queryCalls[t] <= maxRetries
    /\ Len(delays[t]) <= queryCalls[t]
    /\ \A k \in 1..Len(delays[t]) :
         /\ k < maxRetries
         /\ delays[t][k] = DefaultBaseDelay * 2 ^ (k - 1)
    /\ retryPc[t] = "query" => Len(delays[t]) = queryCalls[t] - 1
    /\ retryPc[t] = "delay" => Len(delays[t]) = queryCalls[t]
    /\ retryResult[t].status = "ok" =>
         /\ retryPc[t] = "done"
         /\ retryResult[t].value = queryCalls[t]
         /\ Len(delays[t]) = queryCalls[t] - 1
    /\ (retryResult[t].status = "err" /\ maxRetries >= 1) =>
         /\ retryPc[t] = "done"
         /\ queryCalls[t] = maxRetries
         /\ retryResult[t].error = QueryFnError(t, maxRetries)
         /\ Len(delays[t]) = maxRetries - 1

\* C23: retryQuery calls queryFn at most maxRetries times and terminates; it
\* returns the first success without another attempt, waits
\* baseDelay * 2^(k-1) after the k-th failure for k < maxRetries, and after the
\* maxRetries-th failure rethrows that attempt's error without waiting.
C23_RetryQueryBoundedBackoff ==
  /\ []RetrySafety
  /\ \A t \in 1..RetryTables :
       RetryRunning(t) ~> (retryPc[t] = "done" \/ exited)

C23_Witness ==
  /\ maxRetries = DefaultMaxRetries
  /\ retryResult[1] = Threw(QueryFnError(1, DefaultMaxRetries))
  /\ queryCalls[1] = 3
  /\ delays[1] = <<1000, 2000>>
  /\ retryResult[2] = Returned(2)
  /\ delays[2] = <<1000>>

\* ---------------------------------------------------------------- findMany
HasToken(sql, tok) == \E i \in DOMAIN sql : sql[i] = tok
Bump(flag) == IF flag THEN 1 ELSE 0

\* C24: findMany appends a LIMIT placeholder iff limit > 0 and an OFFSET
\* placeholder iff offset > 0, LIMIT before OFFSET; the limit and offset values
\* follow the where values in the parameter list in that order, and $n
\* placeholders are numbered consecutively after those of the where clause.
C24_FindManyLimitOffset ==
  (op.name = "findMany" /\ Len(sent) = 1) =>
    LET sql == sent[1].sql
        params == sent[1].params
        where == op.args.where
        limit == op.args.limit
        offset == op.args.offset
        n == Len(where)
        atLimit == IndexOf(sql, "LIMIT")
        atOffset == IndexOf(sql, "OFFSET")
    IN /\ HasToken(sql, "LIMIT") <=> limit > 0
       /\ HasToken(sql, "OFFSET") <=> offset > 0
       /\ (limit > 0 /\ offset > 0) => atLimit < atOffset
       /\ limit > 0 =>
            /\ atLimit + 1 \in DOMAIN sql
            /\ sql[atLimit + 1] =
                 (IF primaryDriver \in PgFamily THEN Dollar(n + 1) ELSE "?")
            /\ params[n + 1] = limit
       /\ offset > 0 =>
            /\ atOffset + 1 = Len(sql)
            /\ sql[atOffset + 1] =
                 (IF primaryDriver \in PgFamily
                  THEN Dollar(n + Bump(limit > 0) + 1) ELSE "?")
            /\ params[n + Bump(limit > 0) + 1] = offset
       /\ Len(params) = n + Bump(limit > 0) + Bump(offset > 0)
       /\ \A i \in 1..n : params[i] = where[i].v

\* PostgresDriver sent a findMany with one where entry, a limit and an offset.
C24_Witness ==
  /\ primaryDriver = "PostgresDriver"
  /\ op.name = "findMany"
  /\ Len(op.args.where) = 1 /\ op.args.limit > 0 /\ op.args.offset > 0
  /\ Len(sent) = 1
  /\ HasToken(sent[1].sql, "$3")
  /\ op.resp.status = "ok"

\* ------------------------------------------------------ nested transactions
\* C25: transaction() called on MySQLDriver's transaction-scoped driver while
\* the outer transaction is open issues no second beginTransaction and no
\* inner commit on the shared connection, and when the outer callback later
\* throws and the rollback succeeds, no row written since the outer begin
\* is left in the table.
C25_NestedTransactionSafe ==
  (/\ primaryDriver = "MySQLDriver"
   /\ txPc = "done"
   /\ Step("settled", FALSE) \in SeqToSet(txLog)
   /\ Step("rollback", TRUE) \in SeqToSet(txLog)
   /\ ~Took("close"))
  => /\ ~Took("nestedBegin")
     /\ ~Took("nestedCommit")
     /\ \A row \in table : row.id \notin written

\* ------------------------------------------------- the Database declaration
\* The record type a line `  Key: Type;` names as its value.
ValueType(line) == SubSeq(line, IndexOf(line, ": ") + 1, Len(line) - 1)

\* C26: every record type named as a value in the Database interface of
\* db-types.ts has an interface declared earlier in the file, also when the
\* column query of some table failed or returned no column.
C26_DatabaseValuesDeclared ==
  (ipc = "done" /\ dbTypes.written) =>
    LET text == dbTypes.text
        first == Len(text) - 1 - Len(tableRows)
    IN \A i \in first..(Len(text) - 2) :
         \E j \in 1..(i - 1) :
           /\ IsInterfaceHead(text[j])
           /\ text[j] = InterfaceHead(ValueType(text[i]))

\* ------------------------------------------------------------------ insert
IsInsert(stmt) == Len(stmt.sql) > 0 /\ stmt.sql[1] = "INSERT INTO"
InsertsSent == Cardinality({i \in DOMAIN sent : IsInsert(sent[i])})

\* C27: one insert(table, data) that succeeds sends exactly one INSERT and adds
\* exactly one row; SqliteCloudDriver.insert does not run the INSERT again
\* when the first execution returns no rows.
C27_InsertSendsOneInsert ==
  (op.name = "insert" /\ op.resp.status = "ok") =>
    /\ InsertsSent = 1
    /\ Cardinality(table \ prevTable) = 1

\* ------------------------------------------------------------------ update
\* The rows of the table after an update that the update's where selected.
UpdatedRows(before, after, where) ==
  after \ {row \in before : ~MatchesWhere(row, where)}

\* C28: update(table, data, where) of LibSQLDriver, MySQLDriver and
\* SqliteDriver that modifies n >= 1 rows returns those n rows with their
\* values after the update, also when data assigns a new value to a column
\* the where clause tests.
C28_UpdateReturnsUpdatedRows ==
  (/\ primaryDriver \in {"LibSQLDriver", "MySQLDriver", "SqliteDriver"}
   /\ op.name = "update"
   /\ op.resp.status = "ok"
   /\ op.resp.value.rowCount >= 1)
  => /\ op.resp.value.rows
          = SortedRows(UpdatedRows(prevTable, table, op.args.where))
     /\ Len(op.resp.value.rows) = op.resp.value.rowCount

\* ------------------------------------------------------------ withTimeout
TimedOut(t) == raceResult[t] = Threw(TimeoutError)

\* C29: once withTimeout has rejected the column query of a table, the
\* retryQuery loop it wrapped calls queryFn no more, and no attempt of a
\* table's column query is in flight while a later table is inspected.
C29_TimedOutLoopStops ==
  [][/\ \A t \in 1..RetryTables : TimedOut(t) => queryCalls'[t] = queryCalls[t]
     /\ ~exited' =>
          \A t \in 1..RetryTables : t < inspecting' => retryPc'[t] # "query"]_vars

\* ------------------------------------------------------- the error rethrown
\* C30: when the callback of MySQLDriver.transaction throws, transaction()
\* rejects with the callback's error, also when the rollback that follows
\* fails.
C30_CallbackErrorSurvivesRollback ==
  (/\ primaryDriver = "MySQLDriver"
   /\ txPc = "done"
   /\ Step("settled", FALSE) \in SeqToSet(txLog))
  => outcome = Threw(CallbackError)

====
